---- MODULE Spec2Model ----
(***************************************************************************)
(* Verification model of the neo4j-api REST facade (src/src/index.js).     *)
(*                                                                         *)
(* The module holds several state machines over one set of variables:      *)
(*   SpecMap  - mapWithConcurrency called with an arbitrary mapper         *)
(*   SpecReq  - the two enrichment endpoints (contracts/with-capacity-and- *)
(*              constraints, path-details) on top of runQuery sessions     *)
(*   SpecOac  - the operationally-available-capacity upsert                *)
(*   SpecNotice - the notice ingestion upsert                              *)
(*   SpecGuard  - POST /cypher/read                                        *)
(*   SpecWrites - the mutating endpoints and the writesEnabled gate        *)
(*   SpecOverlap - the constraint time filters of the read endpoints       *)
(*   SpecCapacity, SpecPath, SpecPrices, SpecLookup - further endpoints    *)
(*   SpecConstraints - POST /constraints, the createdAt utility and the    *)
(*              constraint flags of GET /path                              *)
(* A machine leaves the variables of the other machines unchanged.         *)
(***************************************************************************)
EXTENDS Integers, Sequences, FiniteSets, TLC

\* ------------------------------------------------------------------ bounds
MaxItems == 3
MaxLimit == 2

\* ------------------------------------------------------------- small helpers
Min(a, b) == IF a <= b THEN a ELSE b

Max(a, b) == IF a >= b THEN a ELSE b

\* an array slot never assigned, and one holding the value v
Empty == <<>>

Filled(v) == <<v>>

ItemVals == {"a", "b"}

\* arrays are 0-based as in the source: a function on 0..n-1
ArraysOf(S, n) == [0..(n - 1) -> S]

VARIABLES
  items,            \* mapWithConcurrency: the items array
  limit,            \* mapWithConcurrency: the concurrency limit
  i,                \* mapWithConcurrency: the shared index counter
  results,          \* mapWithConcurrency: new Array(items.length)
  workers,          \* the worker() promises: state and claimed idx
  allPromise,       \* Promise.all(workers) awaited by mapWithConcurrency
  mapperKind,       \* which mapper closure the call was given
  completionOrder   \* history: idx of the mapper invocations in settle order

mapVars == <<items, limit, i, results, workers, allPromise, mapperKind,
             completionOrder>>

VARIABLES
  endpoint,         \* which route the request is for
  reqPc,            \* position of the route handler
  dbRows,           \* the records the handler's first query returns
  scheduledPairs,   \* contracts route: result of the scheduled-quantity pass
  capacityPairs,    \* contracts route: result of the max-capacity pass
  primary,          \* the runQuery call of the handler's first query
  wcalls,           \* the runQuery calls of each worker's mapper invocation
  sessions,         \* every driver.session() created so far
  response,         \* what the handler sent with res.status().json()
  respCount,        \* history: number of responses sent
  rejectedIn        \* history: mapperKind of the pass a mapper rejected in

reqVars == <<endpoint, reqPc, dbRows, scheduledPairs, capacityPairs, primary,
             wcalls, sessions, response, respCount, rejectedIn>>

VARIABLES
  locations,        \* the Location nodes of the pipeline in the store
  oacStore,         \* OperationallyAvailableCapacity nodes by composite key
  oacLinks,         \* HAS_AVAILABLE_CAPACITY relationships
  oacResponse,      \* what the last PUT .../operationally-available answered
  oacLog,           \* history: per row of the last call, what SET saw and did
  oacCalls,         \* history: number of PUT requests handled
  oacReceived       \* history: rows received by the successful calls, by key

oacVars == <<locations, oacStore, oacLinks, oacResponse, oacLog, oacCalls,
             oacReceived>>

VARIABLES
  noticeStore,      \* Notice nodes of the pipeline by noticeId
  noticeResponse,   \* what the last POST /api/v1/notices/:pipeline answered
  noticeLog,        \* history: per notice of the last call, what SET saw and did
  noticeBefore,     \* history: noticeStore before the last call
  noticeCalls       \* history: number of POST requests handled

noticeVars == <<noticeStore, noticeResponse, noticeLog, noticeBefore, noticeCalls>>

VARIABLES
  cypherQuery,      \* req.body.query of the last POST /cypher/read
  cypherResponse,   \* what the last POST /cypher/read answered
  cypherExecuted    \* history: the runQuery calls made by the last POST /cypher/read

guardVars == <<cypherQuery, cypherResponse, cypherExecuted>>

VARIABLES
  env,              \* process.env.ENABLE_WRITES when the server started
  writeRequest,     \* the last request sent to a mutating endpoint
  writeResponse,    \* what it was answered
  writeExecuted,    \* history: access modes of the runQuery calls it made
  storeVersion,     \* number of WRITE transactions committed so far
  storeBefore,      \* history: storeVersion when the last request arrived
  writeCallFailed   \* history: a runQuery call of the last request threw

writeVars == <<env, writeRequest, writeResponse, writeExecuted, storeVersion,
               storeBefore, writeCallFailed>>

VARIABLES
  constraints,      \* Constraint nodes attached to a location on the path
  ovEndpoint,       \* the last constraint-filtering endpoint called
  ovAt,             \* its instant (at, asOf) or its day (asOfDate, flowDate)
  ovActive          \* the constraints its query kept as active

overlapVars == <<constraints, ovEndpoint, ovAt, ovActive>>

VARIABLES
  capRecords,       \* OperationallyAvailableCapacity rows the lookup matches
  capResponse       \* what GET /volumes/capacity-and-utilization answered

capVars == <<capRecords, capResponse>>

VARIABLES
  graph,            \* the CONNECTS_TO relationships between the locations
  maxHops,          \* the maxHops parameter of the GET /path requests
  pathPlain,        \* what GET /path without `at` answered
  pathAt,           \* what GET /path with `at` answered
  detailsResponse,  \* what path-details answered
  traversals        \* history: hop bound of each traversal issued, by endpoint

pathVars == <<graph, maxHops, pathPlain, pathAt, detailsResponse, traversals>>

VARIABLES
  priceStore,       \* SymbolTradingDay nodes by (symbol, date)
  priceBatch,       \* the price records of the last PUT prices request
  priceResponse,    \* what it was answered
  priceLog          \* history: per row, its outcome and the store around it

priceVars == <<priceStore, priceBatch, priceResponse, priceLog>>

VARIABLES
  lookupEndpoint,   \* the last read endpoint called
  lookupRows,       \* how many entities its query matched
  lookupResponse    \* what it answered

lookupVars == <<lookupEndpoint, lookupRows, lookupResponse>>

VARIABLES
  conStore,         \* the Constraint nodes of the store, in creation order
  conRequest,       \* the last request to /constraints or GET /path?at=
  conResponse       \* what it was answered

conVars == <<conStore, conRequest, conResponse>>

\* the machines of the later sections
laterVars == <<capVars, pathVars, priceVars, lookupVars, conVars>>

vars == <<mapVars, reqVars, oacVars, noticeVars, guardVars, writeVars,
          overlapVars, laterVars>>

\* what the actions of one machine leave unchanged
httpVars == <<guardVars, writeVars, overlapVars, laterVars>>

coreVars == <<mapVars, reqVars, oacVars, noticeVars, guardVars, writeVars,
              overlapVars>>

notCap == <<coreVars, pathVars, priceVars, lookupVars, conVars>>

notPath == <<coreVars, capVars, priceVars, lookupVars, conVars>>

notPrice == <<coreVars, capVars, pathVars, lookupVars, conVars>>

notLookup == <<coreVars, capVars, pathVars, priceVars, conVars>>

notCon == <<mapVars, reqVars, oacVars, noticeVars, guardVars, overlapVars,
  capVars, pathVars, priceVars, lookupVars, writeExecuted, storeVersion,
  storeBefore, writeRequest, writeResponse, writeCallFailed>>

notReq == <<oacVars, noticeVars, httpVars>>

notMap == <<reqVars, notReq>>

notOac == <<mapVars, reqVars, noticeVars, httpVars>>

notNotice == <<mapVars, reqVars, oacVars, httpVars>>

notGuard == <<mapVars, reqVars, oacVars, noticeVars, writeVars, overlapVars,
  laterVars>>

notWrite == <<mapVars, reqVars, oacVars, noticeVars, guardVars, overlapVars,
  laterVars>>

notOverlap == <<mapVars, reqVars, oacVars, noticeVars, guardVars, writeVars,
  laterVars>>

\* ===================================================== mapWithConcurrency
\* the value mapper(items[idx], idx) resolves with, for an arbitrary mapper
mapper(item, idx) == <<item, idx>>

NumItems == Cardinality(DOMAIN items)

\* Array.from({ length: Math.min(limit, items.length) }, () => worker())
NumWorkersAllItems(lim, n) == n

NumWorkers(lim, n) == Min(lim, n)

\* results[idx] = await mapper(items[idx], idx)
StoreResultByArrival(res, idx, v) ==
  IF \E k \in DOMAIN res : res[k] = Empty
  THEN LET k == CHOOSE k \in DOMAIN res :
                  res[k] = Empty /\ \A j \in DOMAIN res : res[j] = Empty => k <= j
       IN [res EXCEPT ![k] = Filled(v)]
  ELSE res

StoreResult(res, idx, v) == [res EXCEPT ![idx] = Filled(v)]

\* Promise.all(workers): rejects with the first rejection, resolves when
\* every worker has returned
PromiseAllSettled(ws) ==
  IF \A w \in DOMAIN ws : ws[w].state # "awaiting" THEN "resolved" ELSE "pending"

PromiseAll(ws) ==
  IF \E w \in DOMAIN ws : ws[w].state = "rejected" THEN "rejected"
  ELSE IF \A w \in DOMAIN ws : ws[w].state = "returned" THEN "resolved"
  ELSE "pending"

\* the synchronous part of mapWithConcurrency: the results array, the counter
\* and min(limit, n) workers, each of which claims idx = i++ and invokes the
\* mapper before the first await
MapCall(its, lim, kind) ==
  LET n == Cardinality(DOMAIN its)
      m == NumWorkers(lim, n)
      ws == [w \in 0..(m - 1) |-> [state |-> "awaiting", idx |-> w]]
  IN /\ items' = its
     /\ limit' = lim
     /\ mapperKind' = kind
     /\ results' = [k \in 0..(n - 1) |-> Empty]
     /\ workers' = ws
     /\ i' = m
     /\ allPromise' = PromiseAll(ws)
     /\ completionOrder' = <<>>

\* a worker that claims with idx = ++i: it passes over the index the counter
\* stood at
WorkerResumedSkipping(w, v) ==
  LET idx == i + 1
      ws == [workers EXCEPT ![w] =
               IF idx >= NumItems
               THEN [state |-> "returned", idx |-> idx]
               ELSE [state |-> "awaiting", idx |-> idx]]
  IN /\ results' = StoreResult(results, workers[w].idx, v)
     /\ i' = i + 2
     /\ workers' = ws
     /\ allPromise' = PromiseAll(ws)
     /\ completionOrder' = Append(completionOrder, workers[w].idx)
     /\ UNCHANGED <<items, limit, mapperKind>>

\* a worker that stops once the call has failed: it stores its value and
\* returns without claiming when another worker has rejected
WorkerResumedCancelling(w, v) ==
  LET idx == i
      ws == [workers EXCEPT ![w] =
               IF idx >= NumItems \/ allPromise = "rejected"
               THEN [state |-> "returned", idx |-> workers[w].idx]
               ELSE [state |-> "awaiting", idx |-> idx]]
  IN /\ results' = StoreResult(results, workers[w].idx, v)
     /\ i' = IF allPromise = "rejected" THEN i ELSE i + 1
     /\ workers' = ws
     /\ allPromise' = PromiseAll(ws)
     /\ completionOrder' = Append(completionOrder, workers[w].idx)
     /\ UNCHANGED <<items, limit, mapperKind>>

\* a worker without the loop: it maps the item it claimed first and returns
WorkerResumedOnce(w, v) ==
  LET ws == [workers EXCEPT ![w].state = "returned"]
  IN /\ results' = StoreResult(results, workers[w].idx, v)
     /\ workers' = ws
     /\ allPromise' = PromiseAll(ws)
     /\ completionOrder' = Append(completionOrder, workers[w].idx)
     /\ UNCHANGED <<items, limit, mapperKind, i>>

\* worker(): the awaited mapper resolved with v; store it, then the next turn
\* of while (true): const idx = i++; if (idx >= items.length) return;
WorkerResumed(w, v) ==
  LET idx == i
      ws == [workers EXCEPT ![w] =
               IF idx >= NumItems
               THEN [state |-> "returned", idx |-> idx]
               ELSE [state |-> "awaiting", idx |-> idx]]
  IN /\ results' = StoreResult(results, workers[w].idx, v)
     /\ i' = i + 1
     /\ workers' = ws
     /\ allPromise' = PromiseAll(ws)
     /\ completionOrder' = Append(completionOrder, workers[w].idx)
     /\ UNCHANGED <<items, limit, mapperKind>>

\* worker(): the awaited mapper rejected; the worker promise rejects
WorkerThrew(w) ==
  LET ws == [workers EXCEPT ![w].state = "rejected"]
  IN /\ workers' = ws
     /\ allPromise' = PromiseAll(ws)
     /\ completionOrder' = Append(completionOrder, workers[w].idx)
     /\ UNCHANGED <<items, limit, mapperKind, i, results>>

\* =============================================================== runQuery
NoCall == [pc |-> "none", ok |-> TRUE, sid |-> 0]

NoResponse == [status |-> 0, body |-> "none"]

\* the request machine before any request: used by the other machines
ReqIdle ==
  /\ endpoint = "none"
  /\ reqPc = "idle"
  /\ dbRows = <<>>
  /\ scheduledPairs = <<>>
  /\ capacityPairs = <<>>
  /\ primary = NoCall
  /\ wcalls = <<>>
  /\ sessions = <<>>
  /\ response = NoResponse
  /\ respCount = 0
  /\ rejectedIn = "none"

\* the OAC machine before any request: used by the other machines
OacIdle ==
  /\ locations = {}
  /\ oacStore = <<>>
  /\ oacLinks = {}
  /\ oacResponse = NoResponse
  /\ oacLog = <<>>
  /\ oacCalls = 0
  /\ oacReceived = <<>>

\* the notice machine before any request: used by the other machines
NoticeIdle ==
  /\ noticeStore = <<>>
  /\ noticeResponse = NoResponse
  /\ noticeLog = <<>>
  /\ noticeBefore = <<>>
  /\ noticeCalls = 0

\* POST /cypher/read before any request: used by the other machines
GuardIdle ==
  /\ cypherQuery = [isString |-> FALSE, text |-> <<>>]
  /\ cypherResponse = NoResponse
  /\ cypherExecuted = <<>>

\* the mutating endpoints before any request: used by the other machines
WriteIdle ==
  /\ env = "true"
  /\ writeRequest = [endpoint |-> "none", bodyValid |-> TRUE, enumsValid |-> TRUE]
  /\ writeResponse = NoResponse
  /\ writeExecuted = <<>>
  /\ storeVersion = 0
  /\ storeBefore = 0
  /\ writeCallFailed = FALSE

\* the constraint-filtering endpoints before any request
OverlapIdle ==
  /\ constraints = {}
  /\ ovEndpoint = "none"
  /\ ovAt = 0
  /\ ovActive = {}

\* GET /volumes/capacity-and-utilization before any request
CapIdle ==
  /\ capRecords = <<>>
  /\ capResponse = [status |-> 0, count |-> 0, capacity |-> <<>>]

NoPath == [status |-> 0, error |-> "", nodes |-> <<>>, relationships |-> <<>>]

NoDetails == [status |-> 0, count |-> 0, segments |-> <<>>, lookups |-> 0]

\* the path endpoints before any request
PathIdle ==
  /\ graph = {}
  /\ maxHops = 0
  /\ pathPlain = NoPath
  /\ pathAt = NoPath
  /\ detailsResponse = NoDetails
  /\ traversals = {}

NoCounts == [status |-> 0, received |-> 0, created |-> 0, updated |-> 0,
             failedUnknownSymbol |-> 0]

\* PUT prices before any request
PriceIdle ==
  /\ priceStore = <<>>
  /\ priceBatch = <<>>
  /\ priceResponse = NoCounts
  /\ priceLog = <<>>

\* the read endpoints before any request
LookupIdle ==
  /\ lookupEndpoint = "none"
  /\ lookupRows = 0
  /\ lookupResponse = [status |-> 0, count |-> 0]

NoConRequest == [endpoint |-> "none", at |-> 0]

NoConResponse == [status |-> 0, nodes |-> <<>>]

\* the constraint endpoints before any request
ConIdle ==
  /\ conStore = <<>>
  /\ conRequest = NoConRequest
  /\ conResponse = NoConResponse

LaterIdle == CapIdle /\ PathIdle /\ PriceIdle /\ LookupIdle /\ ConIdle

HttpIdle == GuardIdle /\ WriteIdle /\ OverlapIdle /\ LaterIdle

\* the mapWithConcurrency machine before any call: used by the other machines
MapIdle ==
  /\ items = <<>>
  /\ limit = 0
  /\ i = 0
  /\ results = <<>>
  /\ workers = <<>>
  /\ allPromise = "none"
  /\ mapperKind = "none"
  /\ completionOrder = <<>>

\* ------------------------------------------------------------ SpecMap
InitMap ==
  /\ items \in UNION {ArraysOf(ItemVals, n) : n \in 0..MaxItems}
  /\ limit \in 1..MaxLimit
  /\ i = 0
  /\ results = <<>>
  /\ workers = <<>>
  /\ allPromise = "none"
  /\ mapperKind = "generic"
  /\ completionOrder = <<>>
  /\ ReqIdle
  /\ OacIdle
  /\ NoticeIdle
  /\ HttpIdle

MapStart ==
  /\ allPromise = "none"
  /\ MapCall(items, limit, "generic")
  /\ UNCHANGED notMap

MapperResolves ==
  \E w \in DOMAIN workers :
    /\ workers[w].state = "awaiting"
    /\ mapperKind = "generic"
    /\ WorkerResumed(w, mapper(items[workers[w].idx], workers[w].idx))
    /\ UNCHANGED notMap

MapperRejects ==
  \E w \in DOMAIN workers :
    /\ workers[w].state = "awaiting"
    /\ mapperKind = "generic"
    /\ WorkerThrew(w)
    /\ UNCHANGED notMap

NextMap == MapStart \/ MapperResolves \/ MapperRejects

SpecMap == InitMap /\ [][NextMap]_vars

\* ------------------------------------------------------------ claims on mapWithConcurrency
\* mapper invocations started and not yet settled
InFlight == {w \in DOMAIN workers : workers[w].state = "awaiting"}

\* C1: the number of mapper invocations started and not yet settled never
\* exceeds the concurrency limit, nor the number of items
C1_ConcurrencyBound ==
  /\ Cardinality(InFlight) <= limit
  /\ Cardinality(InFlight) <= NumItems

C1_Witness ==
  /\ NumItems > limit
  /\ Cardinality(InFlight) = limit
  /\ Len(completionOrder) >= 1

\* C2: when every mapper invocation resolved, the returned array has the
\* length of the input and slot idx holds mapper(items[idx], idx)
C2_OrderPreserved ==
  allPromise = "resolved" =>
    /\ DOMAIN results = DOMAIN items
    /\ \A idx \in DOMAIN items : results[idx] = Filled(mapper(items[idx], idx))

C2_Witness ==
  /\ allPromise = "resolved"
  /\ Len(completionOrder) >= 2
  /\ completionOrder[1] > completionOrder[2]

\* ================================================ enrichment route handlers
\* the concurrency argument of every mapWithConcurrency call of the routes
ENRICH_LIMIT == 5

MaxRows == 2

Null == "null"

\* rows of the contracts query: one per (contract, season)
ContractRows ==
  { [contractId |-> "123966", mdq |-> 100, constraints |-> 0,
     fromLocationId |-> "R1", toLocationId |-> "D1"],
    [contractId |-> "123966", mdq |-> 200, constraints |-> 1,
     fromLocationId |-> "R1", toLocationId |-> "D2"],
    [contractId |-> "125082", mdq |-> 300, constraints |-> 0,
     fromLocationId |-> "R2", toLocationId |-> "D1"] }

\* rows of the path-details query: one per segment of the path; a Location
\* without a locationId property gives a null id
SegmentRows ==
  { [seq |-> 1, fromLocationId |-> "L1", toLocationId |-> "L2"],
    [seq |-> 1, fromLocationId |-> "L1", toLocationId |-> Null],
    [seq |-> 2, fromLocationId |-> Null, toLocationId |-> "L2"] }

RowsOf(ep) == IF ep = "contracts" THEN ContractRows ELSE SegmentRows

\* async function getScheduledQty(contractId, asOfDate)
getScheduledQty(contractId) ==
  IF contractId = "123966" THEN 200000
  ELSE IF contractId = "125082" THEN 82000
  ELSE 300000

\* async function calculateMaxCapacity(contractObj, asOfDate)
calculateMaxCapacity(contractObj) ==
  IF contractObj.constraints = 0 THEN contractObj.mdq
  ELSE IF contractObj.contractId = "123966" THEN 160000
  ELSE 235000

\* the array mapWithConcurrency returns once every slot is assigned
Returned(res) == [k \in DOMAIN res |-> res[k][1]]

\* Object.fromEntries(pairs)[contractId] ?? 0 : the last pair of a key wins
FromEntries(pairs, contractId) ==
  LET S == {k \in DOMAIN pairs : pairs[k][1] = contractId}
  IN IF S = {} THEN 0
     ELSE pairs[CHOOSE k \in S : \A j \in S : j <= k][2]

\* contracts.map(c => ({ ...c, scheduledQty, calculatedMaxCapacity }))
enrichedContracts(contracts, schedPairs, capPairs) ==
  [k \in DOMAIN contracts |->
     [row |-> contracts[k],
      scheduledQty |-> FromEntries(schedPairs, contracts[k].contractId),
      calculatedMaxCapacity |-> FromEntries(capPairs, contracts[k].contractId)]]

\* what the mapper of a pass resolves with for one item
MapperValue(kind, item) ==
  IF kind = "scheduledQty" THEN <<item.contractId, getScheduledQty(item.contractId)>>
  ELSE IF kind = "maxCapacity" THEN <<item.contractId, calculateMaxCapacity(item)>>
  ELSE [item |-> item, capacity |-> "looked-up"]

\* the location id the capacity mapper looks up on one side of an item
SideId(ep, item, side) ==
  LET r == IF ep = "contracts" THEN item.row ELSE item
  IN IF side = "from" THEN r.fromLocationId ELSE r.toLocationId

\* path-details: fromLocationId ? getCapacityAndUtilizationAtLocation(...)
\*                              : Promise.resolve({ capacity: [] })
\* contracts: the lookup is always made
NeedsCall(ep, item, side) ==
  ep = "contracts" \/ SideId(ep, item, side) # Null

Other(side) == IF side = "from" THEN "to" ELSE "from"

\* ---- runQuery(cypher, params, mode)
\* const session = driver.session({ defaultAccessMode }); session.run(...)
OpenSession(sess, mode) ==
  Append(sess, [state |-> "open", mode |-> mode, runs |-> 1, closes |-> 0])

\* await session.close()
CloseSession(sess, sid) ==
  [sess EXCEPT ![sid].state = "closed", ![sid].closes = @ + 1]

StartedCall(sid) == [pc |-> "running", ok |-> TRUE, sid |-> sid]

SkippedCall == [pc |-> "settled", ok |-> TRUE, sid |-> 0]

\* session.run settled: try { return await ... } finally { await close }
QueryReturnedNoFinally(c, ok) ==
  IF ok THEN [c EXCEPT !.pc = "closing", !.ok = ok]
  ELSE [c EXCEPT !.pc = "settled", !.ok = ok]

QueryReturned(c, ok) == [c EXCEPT !.pc = "closing", !.ok = ok]

InProgress(c) == c.pc \in {"running", "closing"}

NoCalls == [from |-> NoCall, to |-> NoCall]

\* the two lookups an invocation of the capacity mapper starts, in the order
\* of the Promise.all([...]) array; base is the number of sessions before
CapacityCalls(ep, item, base) ==
  LET f == NeedsCall(ep, item, "from")
      t == NeedsCall(ep, item, "to")
  IN [from |-> IF f THEN StartedCall(base + 1) ELSE SkippedCall,
      to   |-> IF t THEN StartedCall(base + (IF f THEN 2 ELSE 1)) ELSE SkippedCall]

NumCalls(ep, item) ==
  (IF NeedsCall(ep, item, "from") THEN 1 ELSE 0)
  + (IF NeedsCall(ep, item, "to") THEN 1 ELSE 0)

RECURSIVE OpenMany(_, _)
OpenMany(sess, n) ==
  IF n = 0 THEN sess ELSE OpenMany(OpenSession(sess, "READ"), n - 1)

RECURSIVE CallsBefore(_, _, _)
\* number of lookups started by the workers 0..w-1 of a fresh pass
CallsBefore(ep, its, w) ==
  IF w = 0 THEN 0
  ELSE CallsBefore(ep, its, w - 1) + NumCalls(ep, its[w - 1])

\* mapWithConcurrency(its, ENRICH_LIMIT, mapper of kind): the workers start
\* synchronously, and so do the lookups of the capacity mapper
PassStart(its, kind) ==
  LET n == Cardinality(DOMAIN its)
      m == NumWorkers(ENRICH_LIMIT, n)
  IN /\ MapCall(its, ENRICH_LIMIT, kind)
     /\ IF kind = "capacity"
        THEN /\ wcalls' = [w \in 0..(m - 1) |->
                  CapacityCalls(endpoint, its[w],
                                Len(sessions) + CallsBefore(endpoint, its, w))]
             /\ sessions' = OpenMany(sessions, CallsBefore(endpoint, its, m))
        ELSE /\ wcalls' = [w \in 0..(m - 1) |-> NoCalls]
             /\ sessions' = sessions

\* res.status(status).json(body)
Respond(status, body) ==
  /\ response' = [status |-> status, body |-> body]
  /\ respCount' = respCount + 1
  /\ reqPc' = "responded"

FirstPass(ep) == IF ep = "contracts" THEN "scheduledQty" ELSE "capacity"

InitReq ==
  /\ items = <<>>
  /\ limit = 0
  /\ i = 0
  /\ results = <<>>
  /\ workers = <<>>
  /\ allPromise = "none"
  /\ mapperKind = "none"
  /\ completionOrder = <<>>
  /\ endpoint \in {"contracts", "pathDetails"}
  /\ reqPc = "idle"
  /\ dbRows \in UNION {ArraysOf(RowsOf(endpoint), n) : n \in 0..MaxRows}
  /\ scheduledPairs = <<>>
  /\ capacityPairs = <<>>
  /\ primary = NoCall
  /\ wcalls = <<>>
  /\ sessions = <<>>
  /\ response = NoResponse
  /\ respCount = 0
  /\ rejectedIn = "none"
  /\ OacIdle
  /\ NoticeIdle
  /\ HttpIdle

\* the handler up to its first await: input validation, then runQuery
ReqStart ==
  /\ reqPc = "idle"
  /\ \E valid \in BOOLEAN :
       IF valid
       THEN /\ primary' = StartedCall(Len(sessions) + 1)
            /\ sessions' = OpenSession(sessions, "READ")
            /\ reqPc' = "primary"
            /\ UNCHANGED <<response, respCount>>
       ELSE /\ Respond(400, "error")
            /\ UNCHANGED <<primary, sessions>>
  /\ UNCHANGED <<notReq, mapVars, endpoint, dbRows, scheduledPairs, capacityPairs,
                 wcalls, rejectedIn>>

\* the first query settles inside runQuery
PrimaryReturns ==
  /\ primary.pc = "running"
  /\ \E ok \in BOOLEAN : primary' = QueryReturned(primary, ok)
  /\ UNCHANGED <<notReq, mapVars, endpoint, reqPc, dbRows, scheduledPairs,
                 capacityPairs, wcalls, sessions, response, respCount,
                 rejectedIn>>

\* runQuery's finally ran; the handler resumes with the records and starts
\* its first pass
PrimaryOk ==
  /\ primary.pc = "closing"
  /\ primary.ok
  /\ primary' = [primary EXCEPT !.pc = "settled"]
  /\ reqPc' = "pass"
  /\ LET closed == CloseSession(sessions, primary.sid)
         kind == FirstPass(endpoint)
         n == Cardinality(DOMAIN dbRows)
         m == NumWorkers(ENRICH_LIMIT, n)
     IN /\ MapCall(dbRows, ENRICH_LIMIT, kind)
        /\ IF kind = "capacity"
           THEN /\ wcalls' = [w \in 0..(m - 1) |->
                     CapacityCalls(endpoint, dbRows[w],
                                   Len(closed) + CallsBefore(endpoint, dbRows, w))]
                /\ sessions' = OpenMany(closed, CallsBefore(endpoint, dbRows, m))
           ELSE /\ wcalls' = [w \in 0..(m - 1) |-> NoCalls]
                /\ sessions' = closed
  /\ UNCHANGED <<notReq, endpoint, dbRows, scheduledPairs, capacityPairs, response,
                 respCount, rejectedIn>>

\* runQuery's finally ran and rethrows; the handler's catch answers 500
PrimaryFailed ==
  /\ primary.pc = "closing"
  /\ ~primary.ok
  /\ primary' = [primary EXCEPT !.pc = "settled"]
  /\ sessions' = CloseSession(sessions, primary.sid)
  /\ Respond(500, "error")
  /\ UNCHANGED <<notReq, mapVars, endpoint, dbRows, scheduledPairs, capacityPairs,
                 wcalls, rejectedIn>>

\* the mapper of the scheduled-quantity or max-capacity pass resolves; the
\* two stubs have no rejecting path
StubResolves ==
  \E w \in DOMAIN workers :
    /\ workers[w].state = "awaiting"
    /\ mapperKind \in {"scheduledQty", "maxCapacity"}
    /\ WorkerResumed(w, MapperValue(mapperKind, items[workers[w].idx]))
    /\ UNCHANGED <<notReq, reqVars>>

\* the query of one lookup of a capacity mapper invocation settles
CallReturns ==
  \E w \in DOMAIN wcalls, side \in {"from", "to"}, ok \in BOOLEAN :
    /\ wcalls[w][side].pc = "running"
    /\ wcalls' = [wcalls EXCEPT ![w][side] = QueryReturned(@, ok)]
    /\ UNCHANGED <<notReq, mapVars, endpoint, reqPc, dbRows, scheduledPairs,
                   capacityPairs, primary, sessions, response, respCount,
                   rejectedIn>>

\* runQuery's finally ran for one lookup; the mapper's Promise.all([from, to])
\* rejects with the first failure and resolves when both lookups resolved
CallClosed ==
  \E w \in DOMAIN wcalls, side \in {"from", "to"} :
    LET c == wcalls[w][side]
        o == wcalls[w][Other(side)]
        closed == CloseSession(sessions, c.sid)
        done == [wcalls EXCEPT ![w][side].pc = "settled"]
    IN /\ c.pc = "closing"
       /\ UNCHANGED <<notReq, endpoint, reqPc, dbRows, scheduledPairs, capacityPairs,
                      primary, response, respCount>>
       /\ IF workers[w].state # "awaiting"
          THEN \* the mapper already rejected: nobody awaits this lookup
               /\ wcalls' = done
               /\ sessions' = closed
               /\ UNCHANGED <<mapVars, rejectedIn>>
          ELSE IF ~c.ok
          THEN /\ WorkerThrew(w)
               /\ wcalls' = done
               /\ sessions' = closed
               /\ rejectedIn' = mapperKind
          ELSE IF o.pc = "settled" /\ o.ok
          THEN /\ WorkerResumed(w, MapperValue(mapperKind, items[workers[w].idx]))
               /\ IF i < NumItems
                  THEN /\ wcalls' = [wcalls EXCEPT ![w] =
                            CapacityCalls(endpoint, items[i], Len(closed))]
                       /\ sessions' = OpenMany(closed, NumCalls(endpoint, items[i]))
                  ELSE /\ wcalls' = done
                       /\ sessions' = closed
               /\ UNCHANGED rejectedIn
          ELSE /\ wcalls' = done
               /\ sessions' = closed
               /\ UNCHANGED <<mapVars, rejectedIn>>

\* the handler going on without awaiting the pass: it takes the results
\* array as it is while mapper invocations are still in flight
ReturnedSoFar(res) ==
  [k \in DOMAIN res |-> IF res[k] = Empty THEN <<Null, 0>> ELSE res[k][1]]

PassResolvedEarly ==
  /\ reqPc = "pass"
  /\ allPromise # "rejected"
  /\ UNCHANGED <<notReq, endpoint, dbRows, primary, rejectedIn>>
  /\ IF mapperKind = "scheduledQty"
     THEN /\ scheduledPairs' = ReturnedSoFar(results)
          /\ PassStart(dbRows, "maxCapacity")
          /\ UNCHANGED <<capacityPairs, reqPc, response, respCount>>
     ELSE IF mapperKind = "maxCapacity"
     THEN /\ capacityPairs' = ReturnedSoFar(results)
          /\ PassStart(enrichedContracts(dbRows, scheduledPairs,
                                         ReturnedSoFar(results)), "capacity")
          /\ UNCHANGED <<scheduledPairs, reqPc, response, respCount>>
     ELSE /\ allPromise = "resolved"
          /\ Respond(200, Returned(results))
          /\ UNCHANGED <<mapVars, scheduledPairs, capacityPairs, wcalls, sessions>>

\* the awaited mapWithConcurrency resolved: the handler goes on to its next
\* pass, or sends the enriched list after the last one
PassResolved ==
  /\ reqPc = "pass"
  /\ allPromise = "resolved"
  /\ UNCHANGED <<notReq, endpoint, dbRows, primary, rejectedIn>>
  /\ IF mapperKind = "scheduledQty"
     THEN /\ scheduledPairs' = Returned(results)
          /\ PassStart(dbRows, "maxCapacity")
          /\ UNCHANGED <<capacityPairs, reqPc, response, respCount>>
     ELSE IF mapperKind = "maxCapacity"
     THEN /\ capacityPairs' = Returned(results)
          /\ PassStart(enrichedContracts(dbRows, scheduledPairs, Returned(results)),
                    "capacity")
          /\ UNCHANGED <<scheduledPairs, reqPc, response, respCount>>
     ELSE /\ Respond(200, Returned(results))
          /\ UNCHANGED <<mapVars, scheduledPairs, capacityPairs, wcalls, sessions>>

\* the awaited mapWithConcurrency rejected: the handler's catch answers 500
PassRejected ==
  /\ reqPc = "pass"
  /\ allPromise = "rejected"
  /\ Respond(500, "error")
  /\ UNCHANGED <<notReq, mapVars, endpoint, dbRows, scheduledPairs, capacityPairs,
                 primary, wcalls, sessions, rejectedIn>>

NextReq ==
  \/ ReqStart
  \/ PrimaryReturns
  \/ PrimaryOk
  \/ PrimaryFailed
  \/ StubResolves
  \/ CallReturns
  \/ CallClosed
  \/ PassResolved
  \/ PassRejected

SpecReq == InitReq /\ [][NextReq]_vars

\* ------------------------------------------ claims on the enrichment routes
\* C3: once a mapper invocation of a pass rejected, the awaited
\* mapWithConcurrency promise is rejected, the handler starts no later pass,
\* and the only response it sends is the 500 error body, which carries none
\* of the results the workers stored
C3_FailFast ==
  rejectedIn # "none" =>
    /\ allPromise = "rejected"
    /\ mapperKind = rejectedIn
    /\ respCount <= 1
    /\ reqPc \in {"pass", "responded"}
    /\ reqPc = "responded" => response = [status |-> 500, body |-> "error"]
    /\ reqPc = "pass" => response = NoResponse

C3_Witness ==
  /\ rejectedIn # "none"
  /\ reqPc = "responded"
  /\ response.status = 500
  /\ \E idx \in DOMAIN results : results[idx] # Empty

\* the runQuery calls the request has made and still refers to
CallSlots == {<<"primary">>} \cup {<<w, side>> : w \in DOMAIN wcalls, side \in {"from", "to"}}

CallAt(slot) == IF slot = <<"primary">> THEN primary ELSE wcalls[slot[1]][slot[2]]

CallsInProgress == {slot \in CallSlots : InProgress(CallAt(slot))}

OpenSessions == {sid \in DOMAIN sessions : sessions[sid].state = "open"}

\* C6 (as stated): every session is closed exactly once and runs one query,
\* the open sessions are those of the runQuery calls in progress, and no
\* session is open once the request has been answered
C6_AsStated ==
  /\ \A sid \in DOMAIN sessions : sessions[sid].runs = 1 /\ sessions[sid].closes <= 1
  /\ Cardinality(OpenSessions) = Cardinality(CallsInProgress)
  /\ reqPc = "responded" => OpenSessions = {}

\* C6 (amended): every session runs one query and is closed exactly once, on
\* the success and on the failure path; the open sessions are exactly those
\* of the runQuery calls in progress; none is open once the request has been
\* answered and the calls it started have settled
C6_SessionsScoped ==
  /\ \A sid \in DOMAIN sessions :
       /\ sessions[sid].runs = 1
       /\ sessions[sid].closes = (IF sessions[sid].state = "closed" THEN 1 ELSE 0)
  /\ \A slot \in CallSlots :
       LET c == CallAt(slot)
       IN /\ InProgress(c) => sessions[c.sid].state = "open"
          /\ (c.pc = "settled" /\ c.sid # 0) => sessions[c.sid].state = "closed"
  /\ Cardinality(OpenSessions) = Cardinality(CallsInProgress)
  /\ (reqPc = "responded" /\ CallsInProgress = {}) => OpenSessions = {}

C6_Witness ==
  /\ reqPc = "responded"
  /\ rejectedIn # "none"
  /\ CallsInProgress = {}
  /\ Len(sessions) >= 3
  /\ \E w \in DOMAIN wcalls : ~wcalls[w]["from"].ok /\ ~wcalls[w]["to"].ok

\* ============================ PUT .../capacities/operationally-available
MaxTime == 3

MaxBatch == 2

MaxCalls == 2

Times == 1..MaxTime

\* a datetime property that is NULL (absent)
NoTime == 0

\* the rows a request can carry after mustStr/mustNum and validateOacBatch;
\* locationId stands for the whole composite key (the other key fields are
\* the same in every row), payload for the capacity figures of the row
OacRows ==
  {r \in [locationId : {"L1", "L2"}, locationName : {"A"},
           postingDate : Times, payload : {"p", "q"}] :
     r.locationId = "L2" => r.payload = "p"}

OacKey(row) == row.locationId

\* the Location nodes the store can hold: two of them share a name
LocationSets ==
  { {},
    {[locationId |-> "L1", name |-> "A"]},
    {[locationId |-> "L1", name |-> "A"], [locationId |-> "L3", name |-> "A"]} }

BatchesOf(S, n) == UNION {[1..k -> S] : k \in 1..n}

\* MERGE (oac:OperationallyAvailableCapacity {...key...})
\* ON CREATE SET oac.createdAt = datetime(), oac.postingDate = incomingPosting
\* the MERGE clause runs over the rows of UNWIND in order, and a row matches
\* the node an earlier row created
RECURSIVE MergeOac(_, _)
MergeOac(store, rows) ==
  IF rows = <<>> THEN store
  ELSE LET row == Head(rows)
           k == OacKey(row)
           merged ==
             IF k \in DOMAIN store THEN store
             ELSE [x \in DOMAIN store \cup {k} |->
                     IF x = k
                     THEN [postingDate |-> row.postingDate, payload |-> Null,
                           locationName |-> Null]
                     ELSE store[x]]
       IN MergeOac(merged, Tail(rows))

\* WITH ..., CASE WHEN oac.postingDate IS NULL THEN true
\*                WHEN incomingPosting >= oac.postingDate THEN true
\*                ELSE false END AS shouldUpdate
\* the WITH clause is evaluated for every row on the graph the MERGE clause
\* left, before the FOREACH clause that follows it writes anything
shouldUpdate(store, row) ==
  \/ store[OacKey(row)].postingDate = NoTime
  \/ row.postingDate >= store[OacKey(row)].postingDate

\* FOREACH (_ IN CASE WHEN shouldUpdate THEN [1] ELSE [] END | SET ...)
SetOac(store, row) ==
  [store EXCEPT ![OacKey(row)] =
     [postingDate |-> row.postingDate, payload |-> row.payload,
      locationName |-> row.locationName]]

RECURSIVE ForeachSetOac(_, _, _)
\* the FOREACH clause over the rows in order; flags[n] is shouldUpdate of row n
ForeachSetOac(store, rows, flags) ==
  IF rows = <<>> THEN store
  ELSE ForeachSetOac(IF Head(flags) THEN SetOac(store, Head(rows)) ELSE store,
                     Tail(rows), Tail(flags))

RECURSIVE OacLogOf(_, _, _)
\* history: for each row, the postingDate stored when its SET is reached
OacLogOf(store, rows, flags) ==
  IF rows = <<>> THEN <<>>
  ELSE <<[row |-> Head(rows), applied |-> Head(flags),
          storedBefore |-> store[OacKey(Head(rows))].postingDate]>>
       \o OacLogOf(IF Head(flags) THEN SetOac(store, Head(rows)) ELSE store,
                   Tail(rows), Tail(flags))

\* OPTIONAL MATCH (l:Location) WHERE l.pipelineCode = row.pipelineCode
\*   AND (l.locationId = row.locationId OR l.name = row.locationName)
MatchLocations(locs, row) ==
  {l \in locs : l.locationId = row.locationId \/ l.name = row.locationName}

\* the rows OPTIONAL MATCH hands on for one input row: one per matching
\* Location, or one with l = null
RowsAfterMatch(locs, row) == Max(1, Cardinality(MatchLocations(locs, row)))

RECURSIVE SumOver(_, _, _, _)
SumOver(locs, rows, flags, want) ==
  IF rows = <<>> THEN 0
  ELSE (IF Head(flags) = want THEN RowsAfterMatch(locs, Head(rows)) ELSE 0)
       + SumOver(locs, Tail(rows), Tail(flags), want)

\* RETURN count(*) AS received, sum(CASE WHEN shouldUpdate ...) AS applied,
\*        sum(CASE WHEN shouldUpdate THEN 0 ELSE 1 END) AS ignored
OacCounts(locs, rows, flags) ==
  [received |-> SumOver(locs, rows, flags, TRUE) + SumOver(locs, rows, flags, FALSE),
   applied  |-> SumOver(locs, rows, flags, TRUE),
   ignored  |-> SumOver(locs, rows, flags, FALSE)]

\* FOREACH (... l IS NULL OR NOT shouldUpdate ...| MERGE (l)-[:HAS_AVAILABLE_CAPACITY]->(oac))
OacLinksOf(locs, rows, flags) ==
  UNION { {<<l.locationId, OacKey(rows[n])>> : l \in MatchLocations(locs, rows[n])} :
          n \in {x \in DOMAIN rows : flags[x]} }

\* history: per key, the greatest postingDate received so far and the
\* payloads of the rows that carried it
RECURSIVE ReceivedWith(_, _)
ReceivedWith(rec, rows) ==
  IF rows = <<>> THEN rec
  ELSE LET row == Head(rows)
           k == OacKey(row)
           old == IF k \in DOMAIN rec THEN rec[k]
                  ELSE [postingDate |-> NoTime, payloads |-> {}]
           new == IF row.postingDate > old.postingDate
                  THEN [postingDate |-> row.postingDate, payloads |-> {row.payload}]
                  ELSE IF row.postingDate = old.postingDate
                  THEN [old EXCEPT !.payloads = @ \cup {row.payload}]
                  ELSE old
       IN ReceivedWith([x \in DOMAIN rec \cup {k} |-> IF x = k THEN new ELSE rec[x]],
                       Tail(rows))

InitOac ==
  /\ MapIdle
  /\ ReqIdle
  /\ NoticeIdle
  /\ HttpIdle
  /\ locations \in LocationSets
  /\ oacStore = <<>>
  /\ oacLinks = {}
  /\ oacResponse = NoResponse
  /\ oacLog = <<>>
  /\ oacCalls = 0
  /\ oacReceived = <<>>

\* the request is rejected before the query: no records, or a row fails
\* mustStr / mustNum / validateOacBatch
OacPutInvalid ==
  /\ oacCalls < MaxCalls
  /\ oacCalls' = oacCalls + 1
  /\ oacResponse' = [status |-> 400, body |-> "error"]
  /\ oacLog' = <<>>
  /\ UNCHANGED <<locations, oacStore, oacLinks, oacReceived, notOac>>

\* the single write query of the handler runs and the handler answers 200
OacPut ==
  \E rows \in BatchesOf(OacRows, MaxBatch) :
    LET merged == MergeOac(oacStore, rows)
        flags == [n \in DOMAIN rows |-> shouldUpdate(merged, rows[n])]
    IN /\ oacCalls < MaxCalls
       /\ oacCalls' = oacCalls + 1
       /\ oacStore' = ForeachSetOac(merged, rows, flags)
       /\ oacLinks' = oacLinks \cup OacLinksOf(locations, rows, flags)
       /\ oacResponse' = [status |-> 200, body |-> OacCounts(locations, rows, flags)]
       /\ oacLog' = OacLogOf(merged, rows, flags)
       /\ oacReceived' = ReceivedWith(oacReceived, rows)
       /\ UNCHANGED <<locations, notOac>>

\* the write query fails: runQuery is awaited outside any try block, the
\* handler's promise rejects and no response is sent; the transaction of the
\* query is rolled back
OacPutQueryFails ==
  /\ oacCalls < MaxCalls
  /\ oacCalls' = oacCalls + 1
  /\ oacResponse' = NoResponse
  /\ oacLog' = <<>>
  /\ UNCHANGED <<locations, oacStore, oacLinks, oacReceived, notOac>>

NextOac == OacPutInvalid \/ OacPut \/ OacPutQueryFails

SpecOac == InitOac /\ [][NextOac]_vars

\* ---------------------------------------------- claims on the OAC upsert
\* C4: over any sequence of upsert calls, a row is applied iff no record is
\* stored under its key or its postingDate >= the stored postingDate, and
\* otherwise ignored; hence the stored record of a key always carries the
\* greatest postingDate received so far for that key, with the values of a
\* row that carried it
C4_LatestPostingWins ==
  /\ \A n \in DOMAIN oacLog :
       oacLog[n].applied <=>
         (oacLog[n].storedBefore = NoTime
            \/ oacLog[n].row.postingDate >= oacLog[n].storedBefore)
  /\ \A k \in DOMAIN oacStore :
       /\ oacStore[k].postingDate = oacReceived[k].postingDate
       /\ oacStore[k].payload \in oacReceived[k].payloads

\* ============================================ POST /api/v1/notices/:pipeline
\* the notices a request body can carry: lastModifiedDatetime is optional
\* (NoTime when absent); content stands for every other stored field
NoticeInputs ==
  {n \in [noticeId : {"N1", "N2"}, lastModifiedDatetime : Times \cup {NoTime},
          postingDatetime : Times, content : {"p", "q"}] :
     /\ n.lastModifiedDatetime # NoTime => n.postingDatetime = 1
     /\ n.content = (IF n.lastModifiedDatetime = NoTime THEN "p" ELSE "q")
     /\ n.noticeId = "N2" => (n.lastModifiedDatetime = NoTime /\ n.postingDatetime = 1)}

\* const normalize = (n) => ({ ..., lastModifiedDatetime: absent ?
\*                             n.postingDatetime : String(...).trim(), ... })
normalize(n) ==
  [n EXCEPT !.lastModifiedDatetime =
     IF n.lastModifiedDatetime = NoTime THEN n.postingDatetime
     ELSE n.lastModifiedDatetime]

\* MERGE (n:Notice { pipelineCode: $pipelineCode, noticeId: notice.noticeId })
\* ON CREATE SET n.createdAt = datetime()
RECURSIVE MergeNotice(_, _)
MergeNotice(store, notices) ==
  IF notices = <<>> THEN store
  ELSE LET k == Head(notices).noticeId
           merged ==
             IF k \in DOMAIN store THEN store
             ELSE [x \in DOMAIN store \cup {k} |->
                     IF x = k
                     THEN [lastModifiedDatetime |-> NoTime,
                           postingDatetime |-> NoTime, content |-> Null]
                     ELSE store[x]]
       IN MergeNotice(merged, Tail(notices))

\* WITH n, notice, incomingMod, CASE
\*   WHEN n.lastModifiedDatetime IS NULL THEN true
\*   WHEN incomingMod >= n.lastModifiedDatetime THEN true ELSE false END
\* evaluated for every notice on the graph the MERGE clause left, before the
\* FOREACH clause that follows it writes anything
noticeShouldUpdate(store, notice) ==
  \/ store[notice.noticeId].lastModifiedDatetime = NoTime
  \/ notice.lastModifiedDatetime >= store[notice.noticeId].lastModifiedDatetime

\* FOREACH (_ IN CASE WHEN shouldUpdate THEN [1] ELSE [] END | SET n.* = ...)
SetNotice(store, notice) ==
  [store EXCEPT ![notice.noticeId] =
     [lastModifiedDatetime |-> notice.lastModifiedDatetime,
      postingDatetime |-> notice.postingDatetime, content |-> notice.content]]

RECURSIVE ForeachSetNotice(_, _, _)
ForeachSetNotice(store, notices, flags) ==
  IF notices = <<>> THEN store
  ELSE ForeachSetNotice(
         IF Head(flags) THEN SetNotice(store, Head(notices)) ELSE store,
         Tail(notices), Tail(flags))

RECURSIVE NoticeLogOf(_, _, _)
\* history: for each notice, the lastModifiedDatetime stored when its SET is
\* reached and whether the SET left the node as it was
NoticeLogOf(store, notices, flags) ==
  IF notices = <<>> THEN <<>>
  ELSE LET next == IF Head(flags) THEN SetNotice(store, Head(notices)) ELSE store
       IN <<[notice |-> Head(notices), applied |-> Head(flags),
             storedBefore |-> store[Head(notices).noticeId].lastModifiedDatetime,
             unchanged |-> next = store]>>
          \o NoticeLogOf(next, Tail(notices), Tail(flags))

InitNotice ==
  /\ MapIdle
  /\ ReqIdle
  /\ OacIdle
  /\ NoticeIdle
  /\ HttpIdle

\* a notice lacks a required field: normalize throws, 400 before any query
NoticePostInvalid ==
  /\ noticeCalls < MaxCalls
  /\ noticeCalls' = noticeCalls + 1
  /\ noticeResponse' = [status |-> 400, body |-> "error"]
  /\ noticeLog' = <<>>
  /\ noticeBefore' = noticeStore
  /\ UNCHANGED <<noticeStore, notNotice>>

\* the write query runs and the handler answers 201 with the stored notices
NoticePost ==
  \E body \in BatchesOf(NoticeInputs, MaxBatch) :
    LET notices == [n \in DOMAIN body |-> normalize(body[n])]
        merged == MergeNotice(noticeStore, notices)
        flags == [n \in DOMAIN notices |-> noticeShouldUpdate(merged, notices[n])]
        final == ForeachSetNotice(merged, notices, flags)
    IN /\ noticeCalls < MaxCalls
       /\ noticeCalls' = noticeCalls + 1
       /\ noticeStore' = final
       /\ noticeResponse' =
            [status |-> 201,
             body |-> [n \in DOMAIN notices |-> final[notices[n].noticeId]]]
       /\ noticeLog' = NoticeLogOf(merged, notices, flags)
       /\ noticeBefore' = noticeStore
       /\ UNCHANGED notNotice

\* the write query fails: the handler's catch answers 409 or 500 and the
\* transaction of the query is rolled back
NoticePostQueryFails ==
  /\ noticeCalls < MaxCalls
  /\ noticeCalls' = noticeCalls + 1
  /\ \E status \in {409, 500} : noticeResponse' = [status |-> status, body |-> "error"]
  /\ noticeLog' = <<>>
  /\ noticeBefore' = noticeStore
  /\ UNCHANGED <<noticeStore, notNotice>>

NextNotice == NoticePostInvalid \/ NoticePost \/ NoticePostQueryFails

SpecNotice == InitNotice /\ [][NextNotice]_vars

\* ------------------------------------------- claims on the notice ingestion
\* C5: over any sequence of ingestion calls, an incoming notice overwrites
\* the stored one iff nothing is stored yet or its lastModifiedDatetime
\* (its postingDatetime when absent) is >= the stored lastModifiedDatetime,
\* and otherwise leaves the stored notice unchanged; the stored
\* lastModifiedDatetime never decreases
C5_LastModifiedWins ==
  /\ \A n \in DOMAIN noticeLog :
       /\ noticeLog[n].applied <=>
            (noticeLog[n].storedBefore = NoTime
               \/ noticeLog[n].notice.lastModifiedDatetime >= noticeLog[n].storedBefore)
       /\ ~noticeLog[n].applied => noticeLog[n].unchanged
  /\ \A k \in DOMAIN noticeBefore :
       /\ k \in DOMAIN noticeStore
       /\ noticeStore[k].lastModifiedDatetime >= noticeBefore[k].lastModifiedDatetime

\* ========================================================= POST /cypher/read
\* number of fragments a query text is made of
MaxWords == 2

\* a text is the sequence of its characters
UpperCase == <<"A", "B", "C", "D", "E", "F", "G", "H", "I", "J", "K", "L", "M",
               "N", "O", "P", "Q", "R", "S", "T", "U", "V", "W", "X", "Y", "Z">>

LowerCase == <<"a", "b", "c", "d", "e", "f", "g", "h", "i", "j", "k", "l", "m",
               "n", "o", "p", "q", "r", "s", "t", "u", "v", "w", "x", "y", "z">>

\* String.prototype.toLowerCase, without it (the text compared as sent)
toLowerCaseSkipped(text) == text

\* String.prototype.toLowerCase
toLowerCase(text) ==
  [p \in DOMAIN text |->
     IF \E u \in DOMAIN UpperCase : UpperCase[u] = text[p]
     THEN LowerCase[CHOOSE u \in DOMAIN UpperCase : UpperCase[u] = text[p]]
     ELSE text[p]]

\* String.prototype.includes
includes(text, k) ==
  \E p \in 1..(Len(text) - Len(k) + 1) : SubSeq(text, p, p + Len(k) - 1) = k

\* const forbidden = ['create ', 'merge ', 'delete ', 'detach ', 'set ',
\*                    'remove ', 'foreach '];
forbidden ==
  << <<"c", "r", "e", "a", "t", "e", " ">>,
     <<"m", "e", "r", "g", "e", " ">>,
     <<"d", "e", "l", "e", "t", "e", " ">>,
     <<"d", "e", "t", "a", "c", "h", " ">>,
     <<"s", "e", "t", " ">>,
     <<"r", "e", "m", "o", "v", "e", " ">>,
     <<"f", "o", "r", "e", "a", "c", "h", " ">> >>

\* forbidden.some(k => lowered.includes(k))
HasForbidden(query) ==
  LET lowered == toLowerCase(query)
  IN \E n \in DOMAIN forbidden : includes(lowered, forbidden[n])

\* runQuery: mode === 'WRITE' ? neo4j.session.WRITE : neo4j.session.READ
AccessMode(mode) == IF mode = "WRITE" THEN "WRITE" ELSE "READ"

\* the pieces the query texts of the model are made of
Fragments ==
  { <<"M", "A", "T", "C", "H", " ">>,
    <<"R", "E", "T", "U", "R", "N", " ">>,
    <<"n">>,
    <<" ">>,
    <<"o", "f", "f">>,
    <<"S", "E", "T", " ">>,
    <<"s", "e", "t", " ">>,
    <<"S", "e", "t">>,
    <<"s", "e", "t", "s">>,
    <<"C", "r", "e", "a", "t", "e", " ">>,
    <<"M", "E", "R", "G", "E", " ">>,
    <<"d", "e", "l", "e", "t", "E", " ">>,
    <<"D", "E", "T", "A", "C", "H", " ">>,
    <<"R", "e", "m", "o", "v", "e", " ">>,
    <<"F", "O", "R", "E", "A", "C", "H", " ">>,
    <<"f", "o", "r", "e", "a", "c", "h", "(">> }

RECURSIVE Texts(_)
Texts(n) ==
  IF n = 0 THEN {<<>>}
  ELSE LET shorter == Texts(n - 1)
       IN shorter \cup {t \o f : t \in shorter, f \in Fragments}

\* req.body.query: absent or not a string, or a string
CypherBodies ==
  {[isString |-> FALSE, text |-> <<>>]}
    \cup {[isString |-> TRUE, text |-> t] : t \in Texts(MaxWords)}

\* if (!query || typeof query !== 'string') return res.status(400)
QueryMissing(q) == ~q.isString \/ q.text = <<>>

\* ------------------------------------------------------------ SpecGuard
\* a request has arrived with some body and is not handled yet
InitGuard ==
  /\ MapIdle
  /\ ReqIdle
  /\ OacIdle
  /\ NoticeIdle
  /\ LaterIdle
  /\ WriteIdle
  /\ OverlapIdle
  /\ cypherQuery \in CypherBodies
  /\ cypherResponse = NoResponse
  /\ cypherExecuted = <<>>

\* the handler returns 400 before the try block
CypherReadRejected ==
  LET q == cypherQuery IN
    /\ cypherResponse = NoResponse
    /\ QueryMissing(q) \/ HasForbidden(q.text)
    /\ cypherResponse' =
         [status |-> 400,
          body |-> IF QueryMissing(q) THEN "query is required"
                   ELSE "Write operations are not allowed in /cypher/read"]
    /\ cypherExecuted' = <<>>
    /\ UNCHANGED <<cypherQuery, notGuard>>

\* const result = await runQuery(query, params || {}, 'READ'); res.json(...)
CypherReadRuns ==
  LET q == cypherQuery IN
    /\ cypherResponse = NoResponse
    /\ ~QueryMissing(q)
    /\ ~HasForbidden(q.text)
    /\ cypherExecuted' = <<[query |-> q.text, mode |-> AccessMode("READ")]>>
    /\ cypherResponse' = [status |-> 200, body |-> "records"]
    /\ UNCHANGED <<cypherQuery, notGuard>>

\* the same, the query throwing: catch (e) { res.status(500) }
CypherReadFails ==
  LET q == cypherQuery IN
    /\ cypherResponse = NoResponse
    /\ ~QueryMissing(q)
    /\ ~HasForbidden(q.text)
    /\ cypherExecuted' = <<[query |-> q.text, mode |-> AccessMode("READ")]>>
    /\ cypherResponse' = [status |-> 500, body |-> "error"]
    /\ UNCHANGED <<cypherQuery, notGuard>>

NextGuard == CypherReadRejected \/ CypherReadRuns \/ CypherReadFails

SpecGuard == InitGuard /\ [][NextGuard]_vars

\* ------------------------------------------- claims on POST /cypher/read
\* the write tokens of the guard, in capitals
WriteTokens ==
  { <<"C", "R", "E", "A", "T", "E", " ">>,
    <<"M", "E", "R", "G", "E", " ">>,
    <<"D", "E", "L", "E", "T", "E", " ">>,
    <<"D", "E", "T", "A", "C", "H", " ">>,
    <<"S", "E", "T", " ">>,
    <<"R", "E", "M", "O", "V", "E", " ">>,
    <<"F", "O", "R", "E", "A", "C", "H", " ">> }

\* the two characters are the same letter in either case, or the same character
SameLetter(a, b) ==
  \/ a = b
  \/ \E u \in DOMAIN UpperCase :
       /\ a \in {UpperCase[u], LowerCase[u]}
       /\ b \in {UpperCase[u], LowerCase[u]}

\* the text contains one of the write tokens, in any letter case
ContainsWriteToken(text) ==
  \E k \in WriteTokens :
    \E p \in 1..(Len(text) - Len(k) + 1) :
      \A j \in 1..Len(k) : SameLetter(text[p + j - 1], k[j])

\* C7: POST /cypher/read answers 400 without calling the executor for every
\* query text that contains one of the write tokens in any letter case; the
\* executor is called only with a text that contains none of them, and then
\* with that text and in READ mode
C7_ReadOnlyGuard ==
  cypherResponse # NoResponse =>
    /\ ContainsWriteToken(cypherQuery.text) =>
         (cypherResponse.status = 400 /\ cypherExecuted = <<>>)
    /\ \A n \in DOMAIN cypherExecuted :
         /\ ~ContainsWriteToken(cypherQuery.text)
         /\ cypherExecuted[n].query = cypherQuery.text
         /\ cypherExecuted[n].mode = "READ"

\* the text 'Set ', a write token in mixed case, was rejected and never run
C7_Witness ==
  /\ cypherQuery.text = <<"S", "e", "t", " ">>
  /\ cypherResponse.status = 400
  /\ cypherExecuted = <<>>

\* ======================================================== mutating endpoints
\* WRITE transactions committed in one run of the model
MaxWrites == 2

Unset == "unset"

\* values process.env.ENABLE_WRITES is started with
EnvValues == {Unset, "true", "false", "TRUE", " yes ", "1", "0", "no", ""}

\* const { ENABLE_WRITES = 'true' } = process.env;
ENABLE_WRITES == IF env = Unset THEN "true" ELSE env

\* v.toLowerCase().trim() on the values above
LowerTrim(v) ==
  CASE v = "TRUE" -> "true"
    [] v = " yes " -> "yes"
    [] OTHER -> v

\* function parseBool(v, fallback=false)
parseBool(v) == LowerTrim(v) \in {"1", "true", "yes"}

\* const writesEnabled = parseBool(ENABLE_WRITES);
writesEnabled == parseBool(ENABLE_WRITES)

WriteEndpoints ==
  {"PUT pipelines", "POST locations", "PUT locations", "PUT oac", "PUT prices",
   "POST notices", "POST /constraints",
   "PATCH /constraints/set-createdAt-from-start"}

\* a request: whether its body passes the handler's own checks, and (for a
\* location) whether its zone and type pass the checks against the store
WriteRequests(ep) ==
  [endpoint : {ep}, bodyValid : BOOLEAN, enumsValid : BOOLEAN]

\* res.status(...).json(...) with the calls made so far; nothing committed
Answered(req, status, calls) ==
  /\ writeRequest' = req
  /\ writeResponse' = [status |-> status, body |-> "error"]
  /\ writeExecuted' = calls
  /\ storeBefore' = storeVersion
  /\ writeCallFailed' = FALSE
  /\ UNCHANGED <<env, storeVersion, notWrite>>

\* await runQuery(cypher, params, 'WRITE') returned, then res.status(status)
Wrote(req, status, calls) ==
  /\ writeRequest' = req
  /\ writeResponse' = [status |-> status, body |-> "result"]
  /\ writeExecuted' = Append(calls, AccessMode("WRITE"))
  /\ storeBefore' = storeVersion
  /\ storeVersion' = storeVersion + 1
  /\ writeCallFailed' = FALSE
  /\ UNCHANGED <<env, notWrite>>

\* await runQuery(cypher, params, 'WRITE') threw inside try: catch answers
WriteThrew(req, statuses, calls) ==
  \E status \in statuses :
    /\ writeRequest' = req
    /\ writeResponse' = [status |-> status, body |-> "error"]
    /\ writeExecuted' = Append(calls, AccessMode("WRITE"))
    /\ storeBefore' = storeVersion
    /\ writeCallFailed' = TRUE
    /\ UNCHANGED <<env, storeVersion, notWrite>>

\* an await outside any try threw: the handler's promise rejects and
\* nothing is sent
Unanswered(req, calls) ==
  /\ writeRequest' = req
  /\ writeResponse' = NoResponse
  /\ writeExecuted' = calls
  /\ storeBefore' = storeVersion
  /\ writeCallFailed' = TRUE
  /\ UNCHANGED <<env, storeVersion, notWrite>>

\* fetchZoneNamesForPipeline and fetchLocationTypeCodesForPipeline: two
\* runQuery calls in the default mode
Lookups == <<AccessMode("READ"), AccessMode("READ")>>

\* ------------------------------------------------------------ SpecWrites
InitWrites ==
  /\ MapIdle
  /\ ReqIdle
  /\ OacIdle
  /\ NoticeIdle
  /\ LaterIdle
  /\ GuardIdle
  /\ OverlapIdle
  /\ env \in EnvValues
  /\ writeRequest = [endpoint |-> "none", bodyValid |-> TRUE, enumsValid |-> TRUE]
  /\ writeResponse = NoResponse
  /\ writeExecuted = <<>>
  /\ storeVersion = 0
  /\ storeBefore = 0
  /\ writeCallFailed = FALSE

\* app.put('/api/v1/pipelines/:pipelineCode')
PutPipeline ==
  \E req \in WriteRequests("PUT pipelines"), ok \in BOOLEAN :
    /\ storeVersion < MaxWrites
    /\ IF ~req.bodyValid THEN Answered(req, 400, <<>>)
       ELSE IF ok THEN Wrote(req, 200, <<>>)
       ELSE WriteThrew(req, {500}, <<>>)

\* app.post('/api/v1/pipelines/:pipelineCode/locations')
PostLocation ==
  \E req \in WriteRequests("POST locations"), lookupsOk \in BOOLEAN, ok \in BOOLEAN :
    /\ storeVersion < MaxWrites
    /\ IF ~req.bodyValid THEN Answered(req, 400, <<>>)
       ELSE IF ~lookupsOk THEN Unanswered(req, SubSeq(Lookups, 1, 1))
       ELSE IF ~req.enumsValid THEN Answered(req, 400, Lookups)
       ELSE IF ok THEN Wrote(req, 201, Lookups)
       ELSE WriteThrew(req, {409, 500}, Lookups)

\* app.put('/api/v1/pipelines/:pipelineCode/locations/:locationId')
PutLocation ==
  \E req \in WriteRequests("PUT locations"), lookupsOk \in BOOLEAN, ok \in BOOLEAN :
    /\ storeVersion < MaxWrites
    /\ IF ~req.bodyValid THEN Answered(req, 400, <<>>)
       ELSE IF ~lookupsOk THEN Unanswered(req, SubSeq(Lookups, 1, 1))
       ELSE IF ~req.enumsValid THEN Answered(req, 400, Lookups)
       ELSE IF ok THEN Wrote(req, 200, Lookups)
       ELSE WriteThrew(req, {500}, Lookups)

\* app.put('/api/v1/pipelines/:pipelineCode/operationally-available-capacities')
PutOac ==
  \E req \in WriteRequests("PUT oac"), ok \in BOOLEAN :
    /\ storeVersion < MaxWrites
    /\ IF ~req.bodyValid THEN Answered(req, 400, <<>>)
       ELSE IF ok THEN Wrote(req, 200, <<>>)
       ELSE Unanswered(req, <<AccessMode("WRITE")>>)

\* app.put('/api/v1/prices/symbol-trading-day')
PutPrices ==
  \E req \in WriteRequests("PUT prices"), ok \in BOOLEAN :
    /\ storeVersion < MaxWrites
    /\ IF ~req.bodyValid THEN Answered(req, 400, <<>>)
       ELSE IF ok THEN Wrote(req, 200, <<>>)
       ELSE WriteThrew(req, {500}, <<>>)

\* app.post('/api/v1/notices/:pipeline')
PostNotice ==
  \E req \in WriteRequests("POST notices"), ok \in BOOLEAN :
    /\ storeVersion < MaxWrites
    /\ IF ~req.bodyValid THEN Answered(req, 400, <<>>)
       ELSE IF ok THEN Wrote(req, 201, <<>>)
       ELSE WriteThrew(req, {409, 500}, <<>>)

\* app.post('/constraints')
PostConstraint ==
  \E req \in WriteRequests("POST /constraints"), ok \in BOOLEAN :
    /\ storeVersion < MaxWrites
    /\ IF ~writesEnabled THEN Answered(req, 403, <<>>)
       ELSE IF ~req.bodyValid THEN Answered(req, 400, <<>>)
       ELSE IF ok THEN Wrote(req, 201, <<>>)
       ELSE WriteThrew(req, {500}, <<>>)

\* app.patch('/constraints/set-createdAt-from-start')
PatchConstraintsCreatedAt ==
  \E req \in WriteRequests("PATCH /constraints/set-createdAt-from-start"),
     ok \in BOOLEAN :
    /\ storeVersion < MaxWrites
    /\ IF ~writesEnabled THEN Answered(req, 403, <<>>)
       ELSE IF ok THEN Wrote(req, 200, <<>>)
       ELSE WriteThrew(req, {500}, <<>>)

NextWrites ==
  \/ PutPipeline
  \/ PostLocation
  \/ PutLocation
  \/ PutOac
  \/ PutPrices
  \/ PostNotice
  \/ PostConstraint
  \/ PatchConstraintsCreatedAt

SpecWrites == InitWrites /\ [][NextWrites]_vars

\* --------------------------------------- claims on the mutating endpoints
\* C8: while writes are disabled, a request to any mutating endpoint is
\* answered 403 whatever its body, no runQuery call in WRITE mode is made for
\* it, and the store is as it was before the request
C8_WritesGate ==
  (~writesEnabled /\ writeRequest.endpoint \in WriteEndpoints) =>
    /\ writeResponse.status = 403
    /\ \A n \in DOMAIN writeExecuted : writeExecuted[n] # "WRITE"
    /\ storeVersion = storeBefore

\* ============================================ constraint-filtering queries
\* days a request can ask for, and constraints attached to the location
MaxDay == 2

MaxConstraints == 1

\* the time scale: a datetime is a number of half seconds, and a day is
\* shortened to two seconds; NoTime is the NULL datetime
Second == 2

DayLen == 2 * Second

Days == 1..MaxDay

Instants == 1..(MaxDay * DayLen)

\* datetime($asOfDate), datetime({date: d}): midnight of the day
dayStart(d) == (d - 1) * DayLen + 1

Windows ==
  [effectiveDatetime : Instants \cup {NoTime}, endDatetime : Instants \cup {NoTime}]

RECURSIVE ConstraintSets(_)
ConstraintSets(n) ==
  IF n = 0 THEN {{}}
  ELSE LET smaller == ConstraintSets(n - 1)
       IN smaller \cup {S \cup {w} : S \in smaller, w \in Windows}

\* Cypher's comparisons and connectives: a comparison with NULL is NULL,
\* and WHERE keeps a row only when its predicate is true
CyLe(a, b) ==
  IF a = NoTime \/ b = NoTime THEN "null" ELSE IF a <= b THEN "true" ELSE "false"

CyLt(a, b) ==
  IF a = NoTime \/ b = NoTime THEN "null" ELSE IF a < b THEN "true" ELSE "false"

CyGe(a, b) == CyLe(b, a)

CyIsNull(a) == IF a = NoTime THEN "true" ELSE "false"

CyAnd(x, y) ==
  IF x = "false" \/ y = "false" THEN "false"
  ELSE IF x = "null" \/ y = "null" THEN "null" ELSE "true"

CyOr(x, y) ==
  IF x = "true" \/ y = "true" THEN "true"
  ELSE IF x = "null" \/ y = "null" THEN "null" ELSE "false"

Where(x) == x = "true"

\* GET /path with the effective date taken strictly before the instant
PathActiveAtStrict(c, t) ==
  Where(CyAnd(CyLt(c.effectiveDatetime, t),
              CyOr(CyIsNull(c.endDatetime), CyGe(c.endDatetime, t))))

\* GET /path: WHERE c.effectiveDatetime <= datetime($at)
\*   AND (c.endDatetime IS NULL OR c.endDatetime >= datetime($at))
PathActiveAt(c, t) ==
  Where(CyAnd(CyLe(c.effectiveDatetime, t),
              CyOr(CyIsNull(c.endDatetime), CyGe(c.endDatetime, t))))

\* GET constraints: AND c.effectiveDatetime <= datetime($asOf)
\*   AND (c.endDatetime IS NULL OR c.endDatetime >= datetime($asOf))
ConstraintsActiveAsOf(c, t) ==
  Where(CyAnd(CyLe(c.effectiveDatetime, t),
              CyOr(CyIsNull(c.endDatetime), CyGe(c.endDatetime, t))))

\* contracts/with-capacity-and-constraints:
\* WHERE c.effectiveDatetime <= datetime($asOfDate) <= c.endDatetime
ContractsActiveOn(c, d) ==
  Where(CyAnd(CyLe(c.effectiveDatetime, dayStart(d)),
              CyLe(dayStart(d), c.endDatetime)))

\* path-details: dayEnd = datetime($asOfDate) + duration({days: 1});
\* WHERE cf.effectiveDatetime < dayEnd AND cf.endDatetime >= dayStart
PathDetailsActiveOn(c, d) ==
  LET dayEnd == dayStart(d) + DayLen
  IN Where(CyAnd(CyLt(c.effectiveDatetime, dayEnd),
                 CyGe(c.endDatetime, dayStart(d))))

\* nominations: dayEnd = dayStart + duration('P1D') - duration('PT1S');
\* WHERE c.effectiveDatetime <= dayEnd AND c.endDatetime >= dayStart
NominationsActiveOn(c, d) ==
  LET dayEnd == dayStart(d) + DayLen - Second
  IN Where(CyAnd(CyLe(c.effectiveDatetime, dayEnd),
                 CyGe(c.endDatetime, dayStart(d))))

\* notices/constrained-noms/:flowDate: the same window and predicate
ConstrainedNomsActiveOn(c, d) ==
  LET dayEnd == dayStart(d) + DayLen - Second
  IN Where(CyAnd(CyLe(c.effectiveDatetime, dayEnd),
                 CyGe(c.endDatetime, dayStart(d))))

\* notices/constrained-noms/:locationName/:beforeDate: the same, on the
\* nomination's flow date
ConstrainedNomsAtLocationActiveOn(c, d) ==
  LET dayEnd == dayStart(d) + DayLen - Second
  IN Where(CyAnd(CyLe(c.effectiveDatetime, dayEnd),
                 CyGe(c.endDatetime, dayStart(d))))

\* the request was answered with the constraints its query kept
Filtered(ep, at, active) ==
  /\ ovEndpoint' = ep
  /\ ovAt' = at
  /\ ovActive' = active
  /\ UNCHANGED <<constraints, notOverlap>>

\* ------------------------------------------------------------ SpecOverlap
\* the store holds some constraints on a location every path goes through
InitOverlap ==
  /\ MapIdle
  /\ ReqIdle
  /\ OacIdle
  /\ NoticeIdle
  /\ LaterIdle
  /\ GuardIdle
  /\ WriteIdle
  /\ constraints \in ConstraintSets(MaxConstraints)
  /\ ovEndpoint = "none"
  /\ ovAt = 0
  /\ ovActive = {}

\* app.get('/path'): without `at` the query does not look at constraints
GetPath ==
  \E at \in Instants \cup {NoTime} :
    Filtered("GET /path", at,
             IF at = NoTime THEN {}
             ELSE {c \in constraints : PathActiveAt(c, at)})

\* app.get('/api/v1/pipelines/:pipelineCode/constraints'): without asOf
\* there is no time filter
GetConstraints ==
  \E asOf \in Instants \cup {NoTime} :
    Filtered("GET constraints", asOf,
             IF asOf = NoTime THEN constraints
             ELSE {c \in constraints : ConstraintsActiveAsOf(c, asOf)})

\* app.get('.../contracts/with-capacity-and-constraints')
GetContractsWithConstraints ==
  \E asOfDate \in Days :
    Filtered("contracts", asOfDate,
             {c \in constraints : ContractsActiveOn(c, asOfDate)})

\* app.get('.../path-details/:fromLocationId/:toLocationId/:asOfDate')
GetPathDetails ==
  \E asOfDate \in Days :
    Filtered("path-details", asOfDate,
             {c \in constraints : PathDetailsActiveOn(c, asOfDate)})

\* app.get('/api/v1/pipelines/:pipelineCode/nominations/:flowDate')
GetNominations ==
  \E flowDate \in Days :
    Filtered("nominations", flowDate,
             {c \in constraints : NominationsActiveOn(c, flowDate)})

\* app.get('/notices/constrained-noms/:flowDate')
GetConstrainedNoms ==
  \E flowDate \in Days :
    Filtered("constrained-noms", flowDate,
             {c \in constraints : ConstrainedNomsActiveOn(c, flowDate)})

\* app.get('/notices/constrained-noms/:locationName/:beforeDate'), for a
\* nomination flowing on flowDate
GetConstrainedNomsAtLocation ==
  \E flowDate \in Days :
    Filtered("constrained-noms at location", flowDate,
             {c \in constraints : ConstrainedNomsAtLocationActiveOn(c, flowDate)})

NextOverlap ==
  \/ GetPath
  \/ GetConstraints
  \/ GetContractsWithConstraints
  \/ GetPathDetails
  \/ GetNominations
  \/ GetConstrainedNoms
  \/ GetConstrainedNomsAtLocation

SpecOverlap == InitOverlap /\ [][NextOverlap]_vars

\* ------------------------------- claims on the constraint-filtering queries
InstantEndpoints == {"GET /path", "GET constraints"}

DayEndpoints ==
  {"contracts", "path-details", "nominations", "constrained-noms",
   "constrained-noms at location"}

C10_OpenEndedActive ==
  ovEndpoint \in DayEndpoints =>
    \A c \in constraints :
      (/\ c.endDatetime = NoTime
       /\ c.effectiveDatetime # NoTime
       /\ c.effectiveDatetime <= dayStart(ovAt)) => c \in ovActive

WindowEndpoints ==
  {"path-details", "nominations", "constrained-noms",
   "constrained-noms at location"}

\* C11: path-details, nominations and both constrained-noms endpoints keep a
\* constraint with window [s, e] for a day exactly when it overlaps
\* [dayStart, dayStart + 24h - 1s], the end included: s <= dayStart + 24h - 1s
\* and e >= dayStart
C11_InclusiveDayWindow ==
  ovEndpoint \in WindowEndpoints =>
    \A c \in constraints :
      (c.effectiveDatetime # NoTime /\ c.endDatetime # NoTime) =>
        (c \in ovActive <=>
           /\ c.effectiveDatetime <= dayStart(ovAt) + DayLen - Second
           /\ c.endDatetime >= dayStart(ovAt))

\* ================================== GET /volumes/capacity-and-utilization
\* the largest quantity of a capacity record, and the records matched
MaxCap == 2

MaxCapRecords == 1

\* the NULL quantity; the stored quantities are non-negative integers
NoNumber == -1

Quantities == (0..MaxCap) \cup {NoNumber}

CapRows ==
  [operatingCapacity : Quantities,
   operationallyAvailableCapacity : Quantities,
   totalSchedQty : Quantities]

\* the values a Cypher expression over the quantities can have: NULL, or a
\* float kept as the fraction num / den, or what a float division by zero gives
NullValue == [kind |-> "null"]

Float(num, den) == [kind |-> "float", num |-> num, den |-> den]

\* 100.0 * n.x : NULL when the property is NULL, a float otherwise
CyTimes100(a) == IF a = NoNumber THEN NullValue ELSE Float(100 * a, 1)

\* x / n.operatingCapacity for a float or NULL x
CyDivide(x, b) ==
  IF x.kind = "null" \/ b = NoNumber THEN NullValue
  ELSE IF b = 0
       THEN (IF x.num = 0 THEN [kind |-> "NaN"] ELSE [kind |-> "Infinity"])
       ELSE Float(x.num, x.den * b)

\* n.operatingCapacity IS NULL, n.operatingCapacity = 0
CyIsNullNumber(a) == IF a = NoNumber THEN "true" ELSE "false"

CyEqNumber(a, b) ==
  IF a = NoNumber \/ b = NoNumber THEN "null" ELSE IF a = b THEN "true" ELSE "false"

\* the percentage without the CASE around the division
PercentUnguarded(a, operatingCapacity) ==
  CyDivide(CyTimes100(a), operatingCapacity)

\* CASE WHEN n.operatingCapacity IS NULL OR n.operatingCapacity = 0 THEN NULL
\*      ELSE 100.0 * n.x / n.operatingCapacity END
Percent(a, operatingCapacity) ==
  IF Where(CyOr(CyIsNullNumber(operatingCapacity), CyEqNumber(operatingCapacity, 0)))
  THEN NullValue
  ELSE CyDivide(CyTimes100(a), operatingCapacity)

\* one row of the RETURN clause, after toPlain on each of its values
CapacityRow(n) ==
  [operatingCapacity |-> n.operatingCapacity,
   operationallyAvailableCapacity |-> n.operationallyAvailableCapacity,
   totalSchedQty |-> n.totalSchedQty,
   availablePercent |-> Percent(n.operationallyAvailableCapacity, n.operatingCapacity),
   utilizationPercent |-> Percent(n.totalSchedQty, n.operatingCapacity)]

\* getCapacityAndUtilizationAtLocation: { params, count, capacity }
getCapacityAndUtilizationAtLocation(records) ==
  [status |-> 200,
   count |-> Len(records),
   capacity |-> [n \in DOMAIN records |-> CapacityRow(records[n])]]

RECURSIVE CapRecordLists(_)
CapRecordLists(n) ==
  IF n = 0 THEN {<<>>}
  ELSE LET shorter == CapRecordLists(n - 1)
       IN shorter \cup {Append(l, r) : l \in shorter, r \in CapRows}

\* ------------------------------------------------------------ SpecCapacity
\* the store holds some capacity records for the location, day and locQTI
InitCapacity ==
  /\ MapIdle
  /\ ReqIdle
  /\ OacIdle
  /\ NoticeIdle
  /\ GuardIdle
  /\ WriteIdle
  /\ OverlapIdle
  /\ ConIdle
  /\ PathIdle
  /\ PriceIdle
  /\ LookupIdle
  /\ capRecords \in CapRecordLists(MaxCapRecords)
  /\ capResponse = [status |-> 0, count |-> 0, capacity |-> <<>>]

\* const data = await getCapacityAndUtilizationAtLocation(...); res.json(data)
GetCapacityAndUtilization ==
  /\ capResponse.status = 0
  /\ capResponse' = getCapacityAndUtilizationAtLocation(capRecords)
  /\ UNCHANGED <<capRecords, notCap>>

\* runQuery threw: catch (e) { res.status(500) }
GetCapacityAndUtilizationFails ==
  /\ capResponse.status = 0
  /\ capResponse' = [status |-> 500, count |-> 0, capacity |-> <<>>]
  /\ UNCHANGED <<capRecords, notCap>>

NextCapacity == GetCapacityAndUtilization \/ GetCapacityAndUtilizationFails

SpecCapacity == InitCapacity /\ [][NextCapacity]_vars

\* ------------------------------------ claims on capacity and utilization
\* the value is the float 100 * a / b, or NULL when a is NULL
IsPercentOf(v, a, b) ==
  IF a = NoNumber THEN v = NullValue
  ELSE /\ v.kind = "float"
       /\ v.num * b = 100 * a * v.den

\* C12: every capacity record of an answer has availablePercent and
\* utilizationPercent null when its operatingCapacity is null or zero, and
\* otherwise 100 * operationallyAvailableCapacity / operatingCapacity and
\* 100 * totalSchedQty / operatingCapacity; there is one such record for
\* each stored record, whatever the stored quantities
C12_PercentGuarded ==
  capResponse.status = 200 =>
    /\ capResponse.count = Len(capRecords)
    /\ \A n \in DOMAIN capRecords :
         LET r == capRecords[n]
             o == capResponse.capacity[n]
         IN IF r.operatingCapacity = NoNumber \/ r.operatingCapacity = 0
            THEN /\ o.availablePercent = NullValue
                 /\ o.utilizationPercent = NullValue
            ELSE /\ IsPercentOf(o.availablePercent,
                                r.operationallyAvailableCapacity, r.operatingCapacity)
                 /\ IsPercentOf(o.utilizationPercent,
                                r.totalSchedQty, r.operatingCapacity)

\* a record with operatingCapacity zero and non-zero quantities was answered
\* with both percentages null
C12_Witness ==
  /\ capResponse.status = 200
  /\ \E n \in DOMAIN capRecords :
       /\ capRecords[n].operatingCapacity = 0
       /\ capRecords[n].totalSchedQty > 0
       /\ capRecords[n].operationallyAvailableCapacity > 0
       /\ capResponse.capacity[n].availablePercent = NullValue
       /\ capResponse.capacity[n].utilizationPercent = NullValue

\* ======================================================== path traversals
\* the largest maxHops a request asks for
MaxHops == 2

LocationNames == {"A", "B", "C"}

\* the requests ask for paths from A to C, two distinct existing locations
FromName == "A"

ToName == "C"

\* the graphs: any set of CONNECTS_TO relationships between two locations
Relationships == {e \in LocationNames \X LocationNames : e[1] # e[2]}

\* maxHops absent from the request
NoHops == 0

\* the pattern '*': no upper bound on the number of hops
Unbounded == -1

\* const hopPattern = maxHops ? `*..${Number(maxHops)}` : '*';
hopPattern(hops) == IF hops # NoHops THEN hops ELSE Unbounded

\* relationships(p) of the path through the nodes p
RelationshipsOf(p) == [j \in 1..(Len(p) - 1) |-> <<p[j], p[j + 1]>>]

UsedIn(p) == {RelationshipsOf(p)[j] : j \in 1..(Len(p) - 1)}

\* the paths from a of at most n hops; a path uses a relationship once
RECURSIVE PathsFrom(_, _, _)
PathsFrom(g, a, n) ==
  IF n = 0 THEN {<<a>>}
  ELSE LET shorter == PathsFrom(g, a, n - 1)
           steps == {x \in shorter \X g :
                       /\ x[2][1] = x[1][Len(x[1])]
                       /\ x[2] \notin UsedIn(x[1])}
       IN shorter \cup {Append(x[1], x[2][2]) : x \in steps}

\* MATCH p = (a)-[:CONNECTS_TO*..bound]->(b): one row for each path of one
\* hop or more, and of at most `bound` hops when there is a bound
Matches(g, a, b, bound) ==
  LET n == IF bound = Unbounded THEN Cardinality(g) ELSE Min(bound, Cardinality(g))
  IN {p \in PathsFrom(g, a, n) : Len(p) >= 2 /\ p[Len(p)] = b}

\* allShortestPaths( (a)-[:CONNECTS_TO*bound]->(b) )
allShortestPaths(g, a, b, bound) ==
  LET rows == Matches(g, a, b, bound)
  IN {p \in rows : \A q \in rows : Len(p) <= Len(q)}

\* collect(DISTINCT loc {...}): the nodes of the path, each one once
RECURSIVE Distinct(_)
Distinct(p) ==
  IF p = <<>> THEN <<>>
  ELSE LET front == Distinct(SubSeq(p, 1, Len(p) - 1))
           last == p[Len(p)]
       IN IF \E j \in DOMAIN front : front[j] = last THEN front
          ELSE Append(front, last)

\* result.records[0].toObject() read without the test on the length
AnswerUnchecked(rows, nodes, rels) ==
  IF rows = {}
  THEN [status |-> 500, error |-> "TypeError", nodes |-> <<>>, relationships |-> <<>>]
  ELSE [status |-> 200, error |-> "", nodes |-> nodes, relationships |-> rels]

\* if (result.records.length === 0) return res.status(404)...;
\* const { nodes, relationships } = result.records[0].toObject(); res.json(...)
Answer(rows, nodes, rels) ==
  IF rows = {}
  THEN [status |-> 404, error |-> "No path found", nodes |-> <<>>, relationships |-> <<>>]
  ELSE [status |-> 200, error |-> "", nodes |-> nodes, relationships |-> rels]

\* the rows of the requests, and the first of them: rows come in the order
\* the executor produces them, so any row can be the first
FirstOf(rows) == IF rows = {} THEN {<<>>} ELSE rows

\* ------------------------------------------------------------ SpecPath
InitPath ==
  /\ MapIdle
  /\ ReqIdle
  /\ OacIdle
  /\ NoticeIdle
  /\ GuardIdle
  /\ WriteIdle
  /\ OverlapIdle
  /\ ConIdle
  /\ CapIdle
  /\ PriceIdle
  /\ LookupIdle
  /\ graph \in SUBSET Relationships
  /\ maxHops \in {NoHops} \cup (1..MaxHops)
  /\ pathPlain = NoPath
  /\ pathAt = NoPath
  /\ detailsResponse = NoDetails
  /\ traversals = {}

\* app.get('/path') without `at`
GetPathPlain ==
  LET bound == hopPattern(maxHops)
      rows == Matches(graph, FromName, ToName, bound)
  IN /\ pathPlain = NoPath
     /\ \E p \in FirstOf(rows) :
          pathPlain' = Answer(rows, p, RelationshipsOf(p))
     /\ traversals' = traversals \cup {[endpoint |-> "GET /path", bound |-> bound]}
     /\ UNCHANGED <<graph, maxHops, pathAt, detailsResponse, notPath>>

\* app.get('/path') with `at`: the nodes are collected DISTINCT
GetPathAt ==
  LET bound == hopPattern(maxHops)
      rows == Matches(graph, FromName, ToName, bound)
  IN /\ pathAt = NoPath
     /\ \E p \in FirstOf(rows) :
          pathAt' = Answer(rows, Distinct(p), RelationshipsOf(p))
     /\ traversals' = traversals \cup {[endpoint |-> "GET /path", bound |-> bound]}
     /\ UNCHANGED <<graph, maxHops, pathPlain, detailsResponse, notPath>>

\* app.get('/path'), the query throwing: catch (e) { res.status(500) }
GetPathFails ==
  /\ \/ /\ pathPlain = NoPath
        /\ pathPlain' = [status |-> 500, error |-> "query failed", nodes |-> <<>>,
                         relationships |-> <<>>]
        /\ UNCHANGED pathAt
     \/ /\ pathAt = NoPath
        /\ pathAt' = [status |-> 500, error |-> "query failed", nodes |-> <<>>,
                         relationships |-> <<>>]
        /\ UNCHANGED pathPlain
  /\ traversals' = traversals \cup
       {[endpoint |-> "GET /path", bound |-> hopPattern(maxHops)]}
  /\ UNCHANGED <<graph, maxHops, detailsResponse, notPath>>

\* path-details: MATCH p = shortestPath((a)-[:CONNECTS_TO*..200]->(b)), one
\* row for each relationship of p, two capacity lookups for each row
GetPathDetailsSegments ==
  LET rows == allShortestPaths(graph, FromName, ToName, 200)
  IN /\ detailsResponse = NoDetails
     /\ \E p \in FirstOf(rows) :
          detailsResponse' =
            [status |-> 200,
             count |-> Len(RelationshipsOf(p)),
             segments |-> RelationshipsOf(p),
             lookups |-> 2 * Len(RelationshipsOf(p))]
     /\ traversals' = traversals \cup {[endpoint |-> "path-details", bound |-> 200]}
     /\ UNCHANGED <<graph, maxHops, pathPlain, pathAt, notPath>>

\* nominations and both constrained-noms endpoints, for a nomination from
\* A to C: MATCH p = allShortestPaths( (rcpt)-[:CONNECTS_TO*]->(dlv) )
GetNominationPaths ==
  \E ep \in {"nominations", "constrained-noms", "constrained-noms at location"} :
    /\ traversals' = traversals \cup {[endpoint |-> ep, bound |-> Unbounded]}
    /\ UNCHANGED <<graph, maxHops, pathPlain, pathAt, detailsResponse, notPath>>

NextPath ==
  \/ GetPathPlain
  \/ GetPathAt
  \/ GetPathFails
  \/ GetPathDetailsSegments
  \/ GetNominationPaths

SpecPath == InitPath /\ [][NextPath]_vars

\* ----------------------------------------- claims on the path endpoints
NoPathExists == Matches(graph, FromName, ToName, Unbounded) = {}

\* C13: when no path leads from A to C, GET /path (with or without `at`)
\* answers 404 unless its query fails, never 200, and path-details answers
\* 200 with count 0, no segment and no capacity lookup
C13_NoPathNotAnError ==
  NoPathExists =>
    /\ pathPlain.status \in {0, 404} \/ pathPlain.error = "query failed"
    /\ pathAt.status \in {0, 404} \/ pathAt.error = "query failed"
    /\ detailsResponse # NoDetails =>
         detailsResponse = [status |-> 200, count |-> 0, segments |-> <<>>,
                            lookups |-> 0]

\* there are relationships but no path from A to C; GET /path answered 404
\* and path-details an empty success
C13_Witness ==
  /\ NoPathExists
  /\ graph # {}
  /\ pathPlain.status = 404
  /\ detailsResponse.status = 200
  /\ detailsResponse.count = 0

\* the rows the GET /path query matches for the request
PathRows == Matches(graph, FromName, ToName, hopPattern(maxHops))

\* C14: a path returned by GET /path has the fewest hops of all the paths
\* from A to C (within maxHops when given), whichever row came first
C14_ReturnsShortest ==
  /\ pathPlain.status = 200 =>
       \A q \in PathRows : Len(pathPlain.relationships) <= Len(RelationshipsOf(q))
  /\ pathAt.status = 200 =>
       \A q \in PathRows : Len(pathAt.relationships) <= Len(RelationshipsOf(q))

\* C15: every traversal issued has a finite hop bound, and a path returned
\* by GET /path with maxHops = k has at most k relationships
C15_HopBound ==
  /\ \A t \in traversals : t.bound # Unbounded
  /\ (maxHops # NoHops /\ pathPlain.status = 200) =>
       Len(pathPlain.relationships) <= maxHops
  /\ (maxHops # NoHops /\ pathAt.status = 200) =>
       Len(pathAt.relationships) <= maxHops

\* C16: for the same graph, endpoints and maxHops, GET /path with `at`
\* returns the same node sequence and the same relationships as GET /path
\* without `at`
C16_AnnotationOnly ==
  (pathPlain.status = 200 /\ pathAt.status = 200) =>
    /\ pathAt.nodes = pathPlain.nodes
    /\ pathAt.relationships = pathPlain.relationships

\* ================================== PUT /api/v1/prices/symbol-trading-day
\* price records in one request
MaxPrices == 2

\* the Symbol nodes of the store, by code
Symbols == {"NG"}

\* toUpper(trim(row.symbol)) on the symbols the requests send
SymbolCode(symbol) ==
  CASE symbol = " ng" -> "NG"
    [] symbol = "xx" -> "XX"
    [] OTHER -> symbol

\* the rows of a request: one trading day, two prices; modificationDatetime
\* absent (NoTime) or one of two instants
PriceRows ==
  [symbol : {"NG", " ng", "xx"}, tradingDay : {"2025-11-01"},
   close : {"p", "q"}, modificationDatetime : {NoTime, 1, 2}]

RECURSIVE PriceBatches(_)
PriceBatches(n) ==
  IF n = 0 THEN {<<>>}
  ELSE LET shorter == PriceBatches(n - 1)
       IN shorter \cup {Append(b, r) : b \in shorter, r \in PriceRows}

\* MERGE (td:SymbolTradingDay {symbol: symbol, date: d})
TradingDayKey(row) == <<SymbolCode(row.symbol), row.tradingDay>>

\* the stores: no trading day, or the one of NG with any price
PriceStores ==
  {<<>>} \cup
  {[k \in {<<"NG", "2025-11-01">>} |-> [close |-> c, modificationDate |-> m]] :
     c \in {"p", "q"}, m \in {NoTime, 1, 2}}

\* the SET applied only when the row is not older than what is stored
SetTradingDayIfNewer(store, row) ==
  LET key == TradingDayKey(row)
  IN IF /\ key \in DOMAIN store
        /\ store[key].modificationDate # NoTime
        /\ row.modificationDatetime < store[key].modificationDate
     THEN store
     ELSE [k \in DOMAIN store \cup {key} |->
             IF k = key
             THEN [close |-> row.close, modificationDate |-> row.modificationDatetime]
             ELSE store[k]]

\* MERGE (td ...) ON CREATE SET ... SET td.close = ..., td.modificationDate = modDt
SetTradingDay(store, row) ==
  LET key == TradingDayKey(row)
  IN [k \in DOMAIN store \cup {key} |->
        IF k = key
        THEN [close |-> row.close, modificationDate |-> row.modificationDatetime]
        ELSE store[k]]

\* the CALL subquery on one row: the result it returns and the store it leaves
PriceRowResult(store, row) ==
  IF SymbolCode(row.symbol) \notin Symbols
  THEN [outcome |-> "FAILED_UNKNOWN_SYMBOL", before |-> store, after |-> store]
  ELSE [outcome |-> IF TradingDayKey(row) \in DOMAIN store THEN "UPDATED"
                    ELSE "CREATED",
        before |-> store,
        after |-> SetTradingDay(store, row)]

\* UNWIND $rows AS row ... CALL (row, ...) { ... }: the rows in order, each
\* on the store left by the one before
RECURSIVE PriceResults(_, _)
PriceResults(store, batch) ==
  IF batch = <<>> THEN <<>>
  ELSE LET first == PriceRowResult(store, Head(batch))
       IN <<first>> \o PriceResults(first.after, Tail(batch))

\* size([x IN results WHERE x.outcome = ...])
CountOutcome(res, outcome) ==
  Cardinality({n \in DOMAIN res : res[n].outcome = outcome})

\* ------------------------------------------------------------ SpecPrices
\* a request has arrived with some records, the store holding some prices
InitPrices ==
  /\ MapIdle
  /\ ReqIdle
  /\ OacIdle
  /\ NoticeIdle
  /\ GuardIdle
  /\ WriteIdle
  /\ OverlapIdle
  /\ ConIdle
  /\ CapIdle
  /\ PathIdle
  /\ LookupIdle
  /\ priceStore \in PriceStores
  /\ priceBatch \in PriceBatches(MaxPrices)
  /\ priceResponse = NoCounts
  /\ priceLog = <<>>

\* if (incomingPrices.length === 0) return res.status(400)
PutPricesEmpty ==
  /\ priceResponse = NoCounts
  /\ priceBatch = <<>>
  /\ priceResponse' = [NoCounts EXCEPT !.status = 400]
  /\ UNCHANGED <<priceStore, priceBatch, priceLog, notPrice>>

\* the WRITE query ran: the store after the last row, and the counts
PutPricesRuns ==
  LET res == PriceResults(priceStore, priceBatch)
  IN /\ priceResponse = NoCounts
     /\ priceBatch # <<>>
     /\ priceLog' = res
     /\ priceStore' = res[Len(res)].after
     /\ priceResponse' =
          [status |-> 200,
           received |-> Len(res),
           created |-> CountOutcome(res, "CREATED"),
           updated |-> CountOutcome(res, "UPDATED"),
           failedUnknownSymbol |-> CountOutcome(res, "FAILED_UNKNOWN_SYMBOL")]
     /\ UNCHANGED <<priceBatch, notPrice>>

\* the WRITE query threw: nothing is committed; catch (e) { res.status(500) }
PutPricesFails ==
  /\ priceResponse = NoCounts
  /\ priceBatch # <<>>
  /\ priceResponse' = [NoCounts EXCEPT !.status = 500]
  /\ UNCHANGED <<priceStore, priceBatch, priceLog, notPrice>>

NextPrices == PutPricesEmpty \/ PutPricesRuns \/ PutPricesFails

SpecPrices == InitPrices /\ [][NextPrices]_vars

\* --------------------------------------------- claims on the price upsert
UnknownSymbol(row) == SymbolCode(row.symbol) \notin Symbols

\* C17: in an answered batch, a row with an unknown symbol leaves the store
\* as it was and counts as failedUnknownSymbol; a row with a known symbol
\* leaves its (symbol, tradingDay) with the row's values whatever was stored,
\* and counts as created iff that trading day did not exist before the row,
\* else as updated; the counts add up over the rows
C17_PriceUpsert ==
  priceResponse.status = 200 =>
    /\ Len(priceLog) = Len(priceBatch)
    /\ \A n \in DOMAIN priceLog :
         LET row == priceBatch[n]
             key == TradingDayKey(row)
             log == priceLog[n]
         IN IF UnknownSymbol(row)
            THEN /\ log.outcome = "FAILED_UNKNOWN_SYMBOL"
                 /\ log.after = log.before
            ELSE /\ key \in DOMAIN log.after
                 /\ log.after[key].close = row.close
                 /\ log.after[key].modificationDate = row.modificationDatetime
                 /\ log.outcome = (IF key \in DOMAIN log.before THEN "UPDATED"
                                   ELSE "CREATED")
    /\ priceResponse.failedUnknownSymbol =
         Cardinality({n \in DOMAIN priceBatch : UnknownSymbol(priceBatch[n])})
    /\ priceResponse.created + priceResponse.updated
         + priceResponse.failedUnknownSymbol = priceResponse.received
    /\ priceStore = priceLog[Len(priceLog)].after

\* a batch of an unknown symbol followed by a known one older than what was
\* stored: the first row failed, the second overwrote the stored price
C17_Witness ==
  /\ priceResponse.status = 200
  /\ Len(priceBatch) = 2
  /\ UnknownSymbol(priceBatch[1])
  /\ ~UnknownSymbol(priceBatch[2])
  /\ priceLog[2].outcome = "UPDATED"
  /\ priceLog[2].before[TradingDayKey(priceBatch[2])].modificationDate = 2
  /\ priceBatch[2].modificationDatetime = 1
  /\ priceStore[TradingDayKey(priceBatch[2])].modificationDate = 1
  /\ priceResponse.failedUnknownSymbol = 1

\* the handler of the request has a check its body fails: the handler's own
\* checks, or, for a location, the checks of direction, position, zone and type
FailsValidation(req) ==
  /\ req.endpoint \in WriteEndpoints
  /\ req.endpoint # "PATCH /constraints/set-createdAt-from-start"
  /\ \/ ~req.bodyValid
     \/ req.endpoint \in {"POST locations", "PUT locations"} /\ ~req.enumsValid

\* C18: a request that fails validation (on an endpoint whose writes gate is
\* open) is answered 400 with no runQuery call made for it, and the store is
\* unchanged
C18_RejectedBeforeAnyCall ==
  (FailsValidation(writeRequest)
     /\ (writesEnabled \/ writeRequest.endpoint # "POST /constraints")) =>
    /\ writeResponse.status = 400
    /\ writeExecuted = <<>>
    /\ storeVersion = storeBefore

\* C19: a request during which a runQuery call threw has been answered with
\* a 500; none is left without a response
C19_FailureAnswered500 ==
  writeCallFailed => writeResponse.status = 500

\* ====================================================== the read endpoints
\* entities a query matches
MaxLookupRows == 3

\* the handlers that end with res.json({ count: x.length, x, ... })
ListEndpoints ==
  {"GET pipelines", "GET cycles", "GET zones", "GET location-types",
   "GET locations", "GET connections", "GET contracts",
   "GET contracts/with-capacity-and-constraints", "GET path-details",
   "GET nominations", "GET agreements/firm-transport",
   "GET capacities/operationally-available", "GET capacities/cycles-with-data",
   "GET flows", "GET prices", "GET notices", "GET constraints",
   "GET capacity-and-utilization"}

\* the handlers that test result.records.length === 0 first
NotFoundOnEmpty(count) ==
  IF count = 0 THEN [status |-> 404, count |-> 0]
  ELSE [status |-> 200, count |-> count]

Looked(ep, n, answer) ==
  /\ lookupEndpoint' = ep
  /\ lookupRows' = n
  /\ lookupResponse' = answer
  /\ UNCHANGED notLookup

\* ------------------------------------------------------------ SpecLookup
InitLookup ==
  /\ MapIdle
  /\ ReqIdle
  /\ OacIdle
  /\ NoticeIdle
  /\ GuardIdle
  /\ WriteIdle
  /\ OverlapIdle
  /\ ConIdle
  /\ CapIdle
  /\ PathIdle
  /\ PriceIdle
  /\ LookupIdle

\* res.json({ count: rows.length, rows })
GetList ==
  \E ep \in ListEndpoints, n \in 0..MaxLookupRows :
    Looked(ep, n, [status |-> 200, count |-> n])

\* app.get('/notices/constrained-noms/:flowDate')
GetConstrainedNomsList ==
  \E n \in 0..MaxLookupRows :
    Looked("GET constrained-noms", n, NotFoundOnEmpty(n))

\* app.get('/notices/constrained-noms/:locationName/:beforeDate')
GetConstrainedNomsAtLocationList ==
  \E n \in 0..MaxLookupRows :
    Looked("GET constrained-noms at location", n, NotFoundOnEmpty(n))

\* app.get('/api/v1/pipelines/:pipelineCode/notices/:noticeId'): one notice
GetNoticeById ==
  \E n \in 0..1 :
    Looked("GET notices/:noticeId", n, NotFoundOnEmpty(n))

\* app.get('/path'): the first of the paths
GetPathFirst ==
  \E n \in 0..MaxLookupRows :
    Looked("GET /path", n, NotFoundOnEmpty(Min(n, 1)))

\* any of them, the query throwing: catch (e) { res.status(500) }
GetThrows ==
  \E ep \in ListEndpoints \cup
            {"GET constrained-noms", "GET constrained-noms at location",
             "GET notices/:noticeId", "GET /path"},
     n \in 0..MaxLookupRows :
    Looked(ep, n, [status |-> 500, count |-> 0])

NextLookup ==
  \/ GetList
  \/ GetConstrainedNomsList
  \/ GetConstrainedNomsAtLocationList
  \/ GetNoticeById
  \/ GetPathFirst
  \/ GetThrows

SpecLookup == InitLookup /\ [][NextLookup]_vars

\* ---------------------------------------------- claims on the zero-row case
SingleEntityLookups == {"GET notices/:noticeId", "GET /path"}

\* C20: a query that matched nothing is answered 404 only by the lookups of
\* one entity (notice by id, path); every other read endpoint, the two
\* constrained-noms endpoints and the nominations list included, answers 200
\* with count 0
C20_NotFoundOnlyForSingle ==
  (lookupEndpoint # "none" /\ lookupRows = 0 /\ lookupResponse.status # 500) =>
    IF lookupEndpoint \in SingleEntityLookups
    THEN lookupResponse.status = 404
    ELSE lookupResponse = [status |-> 200, count |-> 0]
\* ================================================== the /constraints routes
MaxPosted == 2

MaxConTime == 2

ConTimes == 1..MaxConTime

\* datetime(): the clock of the transaction, later than the times requests name
Now == MaxConTime + 1

\* the Location nodes of the path GET /path returns, in path order
PathLocations == <<"A", "B">>

\* locationName of a request: a location of the path, a name no Location
\* has, or none
PostedNames == {"A", "Z", Null}

\* a Constraint node with the properties the read queries filter on, as a
\* store loaded outside the API holds them
LoadedConstraint ==
  [start |-> NoTime, end |-> NoTime, effectiveDatetime |-> 1,
   endDatetime |-> NoTime, createdAt |-> 1, locations |-> {"B"}]

\* CREATE (c:Constraint { reason, kind, start: datetime($start),
\*   end: ${end ? 'datetime($end)' : 'NULL'}, limit, createdAt: datetime() })
NewConstraint(start, end) ==
  [start |-> start, end |-> end, effectiveDatetime |-> NoTime,
   endDatetime |-> NoTime, createdAt |-> Now, locations |-> {}]

\* CALL { WITH c WITH c WHERE $locationName IS NOT NULL
\*        MATCH (l:Location {name: $locationName})
\*        MERGE (l)-[:HAS_CONSTRAINT]->(c) RETURN l }
\* the rows of the subquery, which are the rows of the whole query
MatchedLocations(locationName) ==
  IF locationName = Null THEN {}
  ELSE {PathLocations[k] : k \in {j \in DOMAIN PathLocations :
                                    PathLocations[j] = locationName}}

\* MATCH (c:Constraint) SET c.createdAt = c.start
SetCreatedAtFromStart(store) ==
  [k \in DOMAIN store |-> [store[k] EXCEPT !.createdAt = store[k].start]]

\* OPTIONAL MATCH (loc)-[:HAS_CONSTRAINT]->(c:Constraint) WHERE ...
\* constrained: count(c) > 0
Constrained(store, loc, at) ==
  \E k \in DOMAIN store :
    /\ loc \in store[k].locations
    /\ PathActiveAt(store[k], at)

ConAnswer(ep, at, status, nodes) ==
  /\ conRequest' = [endpoint |-> ep, at |-> at]
  /\ conResponse' = [status |-> status, nodes |-> nodes]

\* ------------------------------------------------------------ SpecConstraints
InitConstraints ==
  /\ MapIdle
  /\ ReqIdle
  /\ OacIdle
  /\ NoticeIdle
  /\ GuardIdle
  /\ OverlapIdle
  /\ CapIdle
  /\ PathIdle
  /\ PriceIdle
  /\ LookupIdle
  /\ env \in {"true", "false"}
  /\ writeRequest = [endpoint |-> "none", bodyValid |-> TRUE, enumsValid |-> TRUE]
  /\ writeResponse = NoResponse
  /\ writeExecuted = <<>>
  /\ storeVersion = 0
  /\ storeBefore = 0
  /\ writeCallFailed = FALSE
  /\ conStore \in {<<>>, <<LoadedConstraint>>}
  /\ conRequest = NoConRequest
  /\ conResponse = NoConResponse

\* app.post('/constraints'): the node is created before the subquery drops
\* the row, and with no row result.records[0] is undefined: the catch
\* answers 500 after the transaction has committed
CreateConstraint ==
  \E start \in ConTimes \cup {NoTime}, end \in ConTimes \cup {NoTime},
     locationName \in PostedNames, ok \in BOOLEAN :
    LET ls == MatchedLocations(locationName)
        c == [NewConstraint(start, end) EXCEPT !.locations = ls]
    IN /\ Len(conStore) < MaxPosted
       /\ IF ~writesEnabled
          THEN /\ ConAnswer("POST /constraints", NoTime, 403, <<>>)
               /\ UNCHANGED conStore
          ELSE IF start = NoTime
          THEN /\ ConAnswer("POST /constraints", NoTime, 400, <<>>)
               /\ UNCHANGED conStore
          ELSE IF ~ok
          THEN /\ ConAnswer("POST /constraints", NoTime, 500, <<>>)
               /\ UNCHANGED conStore
          ELSE /\ conStore' = Append(conStore, c)
               /\ ConAnswer("POST /constraints", NoTime,
                            IF ls = {} THEN 500 ELSE 201, <<>>)
       /\ UNCHANGED <<notCon, env>>

\* app.patch('/constraints/set-createdAt-from-start')
SetCreatedAt ==
  \E ok \in BOOLEAN :
    /\ IF ~writesEnabled
       THEN /\ ConAnswer("PATCH", NoTime, 403, <<>>)
            /\ UNCHANGED conStore
       ELSE IF ~ok
       THEN /\ ConAnswer("PATCH", NoTime, 500, <<>>)
            /\ UNCHANGED conStore
       ELSE /\ conStore' = SetCreatedAtFromStart(conStore)
            /\ ConAnswer("PATCH", NoTime, 200, <<>>)
    /\ UNCHANGED <<notCon, env>>

\* app.get('/path') with `at`: the first record, its nodes flagged
GetPathConstrained ==
  \E at \in ConTimes, ok \in BOOLEAN :
    /\ IF ok
       THEN ConAnswer("GET /path", at, 200,
                      [k \in DOMAIN PathLocations |->
                         [name |-> PathLocations[k],
                          constrained |-> Constrained(conStore, PathLocations[k], at)]])
       ELSE ConAnswer("GET /path", at, 500, <<>>)
    /\ UNCHANGED <<notCon, env, conStore>>

NextConstraints == CreateConstraint \/ SetCreatedAt \/ GetPathConstrained

SpecConstraints == InitConstraints /\ [][NextConstraints]_vars

\* ----------------------------------------- claims on the /constraints routes
\* C21: every Constraint of the store has an effectiveDatetime, and its
\* endDatetime is null or not earlier than its effectiveDatetime
C21_ConstraintWindowInvariant ==
  \A k \in DOMAIN conStore :
    /\ conStore[k].effectiveDatetime # NoTime
    /\ \/ conStore[k].endDatetime = NoTime
       \/ conStore[k].endDatetime >= conStore[k].effectiveDatetime
\* the window of a constraint, under whichever property names it was written
StartOf(c) == IF c.start # NoTime THEN c.start ELSE c.effectiveDatetime

EndOf(c) == IF c.start # NoTime THEN c.end ELSE c.endDatetime

\* C23: when GET /path with at = t is answered, every location of the path
\* linked to a constraint that POST /constraints created with start <= t and
\* no end is marked constrained, and every location with no constraint
\* active at t is marked not constrained
C23_CreatedConstraintFlagged ==
  (conRequest.endpoint = "GET /path" /\ conResponse.status = 200) =>
    \A k \in DOMAIN conResponse.nodes :
      LET node == conResponse.nodes[k]
          t == conRequest.at
          linked == {j \in DOMAIN conStore : node.name \in conStore[j].locations}
      IN /\ (\E j \in linked :
               /\ conStore[j].start # NoTime
               /\ conStore[j].start <= t
               /\ conStore[j].end = NoTime) => node.constrained
         /\ (\A j \in linked :
               \/ StartOf(conStore[j]) > t
               \/ EndOf(conStore[j]) # NoTime /\ EndOf(conStore[j]) < t)
              => ~node.constrained
\* ------------------------------------------------ claims on the write flag
GatedEndpoints ==
  {"POST /constraints", "PATCH /constraints/set-createdAt-from-start"}

\* C22: when ENABLE_WRITES is not set in the environment, writes are
\* disabled: a request to POST /constraints or to PATCH
\* /constraints/set-createdAt-from-start is answered 403, no runQuery call in
\* WRITE mode is made for it and the store is as it was before the request
C22_ReadOnlyByDefault ==
  (env = Unset /\ writeRequest.endpoint \in GatedEndpoints) =>
    /\ ~writesEnabled
    /\ writeResponse.status = 403
    /\ \A n \in DOMAIN writeExecuted : writeExecuted[n] # "WRITE"
    /\ storeVersion = storeBefore
\* ------------------------------------- claims on the order of the passes
\* the lookups of the capacity mappers that are in progress
LookupsInProgress ==
  {slot \in CallSlots : slot # <<"primary">> /\ InProgress(CallAt(slot))}

\* C24: in contracts/with-capacity-and-constraints a pass starts only when
\* every mapper invocation of the pass before it has settled: the
\* max-capacity pass after the whole scheduled-quantity pass, the capacity
\* lookups after the whole max-capacity pass; while one of the first two
\* passes runs, no capacity-at-location lookup has been started
C24_PassesSequential ==
  /\ [][(endpoint = "contracts" /\ mapperKind' # mapperKind /\ mapperKind # "none") =>
          /\ <<mapperKind, mapperKind'>> \in
               {<<"scheduledQty", "maxCapacity">>, <<"maxCapacity", "capacity">>}
          /\ \A w \in DOMAIN workers : workers[w].state = "returned"
          /\ \A k \in DOMAIN results : results[k] # Empty
          /\ Len(completionOrder) = NumItems
          /\ LookupsInProgress = {}]_vars
  /\ [](mapperKind \in {"scheduledQty", "maxCapacity"} =>
          /\ LookupsInProgress = {}
          /\ Len(sessions) = 1)

\* the capacity pass of a two-row contract list is running after both
\* earlier passes delivered their pairs
C24_Witness ==
  /\ endpoint = "contracts"
  /\ mapperKind = "capacity"
  /\ Cardinality(DOMAIN dbRows) = 2
  /\ Cardinality(DOMAIN scheduledPairs) = 2
  /\ Cardinality(DOMAIN capacityPairs) = 2
  /\ LookupsInProgress # {}
\* ------------------------------------ claims on the claiming of the indices
\* the indices whose mapper invocation has settled, and those in flight
SettledIndices == {completionOrder[k] : k \in DOMAIN completionOrder}

InFlightIndices == {workers[w].idx : w \in InFlight}

\* C25: a call starts exactly min(limit, n) workers; the indices claimed so
\* far are 0..min(i, n)-1 with none passed over, each claimed by one worker
\* and its mapper invoked once; when the call resolves, the mapper has been
\* invoked exactly once for every item
C25_EachIndexOnce ==
  allPromise # "none" =>
    /\ Cardinality(DOMAIN workers) = Min(limit, NumItems)
    /\ SettledIndices \cup InFlightIndices = 0..(Min(i, NumItems) - 1)
    /\ SettledIndices \cap InFlightIndices = {}
    /\ Cardinality(SettledIndices) = Len(completionOrder)
    /\ Cardinality(InFlightIndices) = Cardinality(InFlight)
    /\ allPromise = "resolved" =>
         /\ SettledIndices = DOMAIN items
         /\ Len(completionOrder) = NumItems

\* three items were mapped by two workers, the second item settling first
C25_Witness ==
  /\ allPromise = "resolved"
  /\ NumItems = 3
  /\ limit = 2
  /\ completionOrder[1] = 1
  /\ i = NumItems + 2
\* ------------------------------------------- claims on the merge of a pass
\* C26: in contracts/with-capacity-and-constraints the list handed to the
\* capacity pass carries, for every row k of the contract list, the
\* scheduledQty and the calculatedMaxCapacity the mappers computed for row k
\* itself, also when rows share a contractId
C26_MergedByIndex ==
  (endpoint = "contracts" /\ mapperKind = "capacity") =>
    /\ DOMAIN items = DOMAIN dbRows
    /\ \A k \in DOMAIN items :
         /\ items[k].row = dbRows[k]
         /\ items[k].scheduledQty = getScheduledQty(dbRows[k].contractId)
         /\ items[k].calculatedMaxCapacity = calculateMaxCapacity(dbRows[k])
\* ------------------------------------------------------------ SpecReqWide
\* the enrichment routes on lists long enough for the lookups of one pass
\* to outnumber the concurrency argument: a contract list of more than
\* ENRICH_LIMIT / 2 rows, and a path of more than ENRICH_LIMIT segments of
\* which the first has both location ids
WideContracts ==
  [k \in 0..(ENRICH_LIMIT \div 2) |->
     [contractId |-> IF k = 0 THEN "125082" ELSE "123966",
      mdq |-> 100 * (k + 1), constraints |-> k % 2,
      fromLocationId |-> "R1", toLocationId |-> "D1"]]

WideSegments ==
  [k \in 0..ENRICH_LIMIT |->
     IF k < 1 THEN [seq |-> 1, fromLocationId |-> "L1", toLocationId |-> "L2"]
     ELSE [seq |-> 1, fromLocationId |-> "L1", toLocationId |-> Null]]

InitReqWide ==
  /\ MapIdle
  /\ endpoint \in {"contracts", "pathDetails"}
  /\ reqPc = "idle"
  /\ dbRows = (IF endpoint = "contracts" THEN WideContracts ELSE WideSegments)
  /\ scheduledPairs = <<>>
  /\ capacityPairs = <<>>
  /\ primary = NoCall
  /\ wcalls = <<>>
  /\ sessions = <<>>
  /\ response = NoResponse
  /\ respCount = 0
  /\ rejectedIn = "none"
  /\ OacIdle
  /\ NoticeIdle
  /\ HttpIdle

SpecReqWide == InitReqWide /\ [][NextReq]_vars

\* ------------------------------- claims on the executor calls of a pass
\* C27 (as stated): the runQuery calls in flight on behalf of a pass never
\* number more than the concurrency argument of the pass
C27_AsStated == Cardinality(LookupsInProgress) <= ENRICH_LIMIT

\* C27 (amended): the mapper invocations in flight never number more than
\* the concurrency argument of the pass; each invocation of the capacity
\* mapper has its receipt-side and its delivery-side lookup in flight
\* together, so the runQuery calls in flight number at most twice the
\* workers of the pass, which is at most twice the concurrency argument
C27_CallsBoundedByTwicePass ==
  /\ Cardinality(InFlight) <= ENRICH_LIMIT
  /\ Cardinality(DOMAIN workers) <= ENRICH_LIMIT
  /\ Cardinality(LookupsInProgress) <= 2 * Cardinality(DOMAIN workers)
  /\ Cardinality(LookupsInProgress) <= 2 * ENRICH_LIMIT

\* five segment mappers in flight with more lookups than five between them,
\* and a segment still unclaimed
C27_Witness ==
  /\ endpoint = "pathDetails"
  /\ NumItems > ENRICH_LIMIT
  /\ i = ENRICH_LIMIT
  /\ Cardinality(InFlight) = ENRICH_LIMIT
  /\ Cardinality(LookupsInProgress) > ENRICH_LIMIT
\* ---------------------------------------- claims on the counts of the upsert
\* C28: the counts of an answered upsert partition the batch: received is
\* the number of rows submitted, applied the number of rows applied, and
\* applied + ignored = received, whatever Locations the rows match
C28_CountsPartitionBatch ==
  oacResponse.status = 200 =>
    /\ oacResponse.body.received = Len(oacLog)
    /\ oacResponse.body.applied + oacResponse.body.ignored
         = oacResponse.body.received
    /\ oacResponse.body.applied
         = Cardinality({n \in DOMAIN oacLog : oacLog[n].applied})
\* ------------------------------------------ claims on the lack of cancelling
\* C29: after a mapper invocation has rejected and Promise.all(workers) has
\* rejected, also once the handler has sent its error response, a worker
\* whose invocation resolves stores the value and claims the next index as
\* before: while items are left it invokes the mapper for the index the
\* counter stood at, which starts the lookups of that item
C29_NoCancellation ==
  [][\A w \in DOMAIN workers :
       (/\ allPromise = "rejected"
        /\ workers[w].state = "awaiting"
        /\ workers'[w] # workers[w]
        /\ workers'[w].state # "rejected")
       => /\ i' = i + 1
          /\ results'[workers[w].idx] # Empty
          /\ IF i < NumItems
             THEN /\ workers'[w] = [state |-> "awaiting", idx |-> i]
                  /\ Len(sessions') = Len(sessions) + NumCalls(endpoint, items[i])
             ELSE workers'[w].state = "returned"]_vars

\* path-details has answered 500 for the rejection of the first settled
\* invocation; the second one resolved and its worker is now looking up the
\* last segment, unclaimed when the pass began
C29_Witness ==
  /\ endpoint = "pathDetails"
  /\ reqPc = "responded"
  /\ response.status = 500
  /\ Len(completionOrder) = 2
  /\ \E w \in DOMAIN workers :
       /\ workers[w].state = "rejected"
       /\ workers[w].idx = completionOrder[1]
  /\ \E w \in DOMAIN workers :
       /\ workers[w] = [state |-> "awaiting", idx |-> ENRICH_LIMIT]
       /\ wcalls[w]["from"].pc = "running"
\* ------------------------------------------------------------ SpecMapLive
\* mapWithConcurrency under the hypothesis of the termination claim: the
\* call is made, and every mapper invocation eventually settles; the
\* continuation of a settled await always runs
SpecMapLive ==
  /\ InitMap
  /\ [][NextMap]_vars
  /\ WF_vars(MapStart)
  /\ WF_vars(MapperResolves \/ MapperRejects)

\* ------------------------------------------------- claims on termination
AllSlotsFilled ==
  /\ DOMAIN results = DOMAIN items
  /\ \A idx \in DOMAIN results : results[idx] # Empty

SomeRejected == \E w \in DOMAIN workers : workers[w].state = "rejected"

\* C30: for limit >= 1 a call in which no mapper invocation rejects
\* eventually resolves with every one of the n slots filled; a call on an
\* empty list resolves at once with an empty array, starts no worker and
\* invokes the mapper for nothing
C30_Terminates ==
  /\ <>(SomeRejected \/ (allPromise = "resolved" /\ AllSlotsFilled))
  /\ []((allPromise # "none" /\ NumItems = 0) =>
          /\ allPromise = "resolved"
          /\ results = <<>>
          /\ workers = <<>>
          /\ completionOrder = <<>>
          /\ i = 0)

\* three items were mapped by one worker and the call resolved
C30_Witness ==
  /\ limit = 1
  /\ NumItems = 3
  /\ allPromise = "resolved"
  /\ AllSlotsFilled
  /\ completionOrder = <<0, 1, 2>>

====
